---- MODULE Spec2Model ----
(***************************************************************************)
(* Model of onnxruntime.SessionPool (src/onnxruntime/pool.go) and of the   *)
(* parts of onnxruntime.Session it drives.  Every goroutine that calls     *)
(* into the pool is a process with a program counter; one step of the      *)
(* model is one access to shared state (an atomic, the WaitGroup, the      *)
(* channel, a context) together with the local code around it.             *)
(***************************************************************************)
EXTENDS Integers, Sequences, FiniteSets, TLC

\* ---------------------------------------------------------------- bounds
NumCallers == 2        \* K: goroutines calling Run / Warmup / HealthCheck
MaxPoolSize == 2       \* largest n given to NewSessionPool
MaxCalls == 2          \* M: calls each caller goroutine issues
MaxElapsed == 1        \* largest time.Since(start) a run measures
NumHooks == 1          \* len(p.hooks)

Callers == 1 .. NumCallers
NilSession == 0        \* the nil *Session a closed, drained channel yields
NoSession == -1        \* Run's variable session before the receive
Elapsed == 1 .. MaxElapsed

VARIABLES
    capacity,       \* cap(p.sessions): the n the pool was built with
    sessions,       \* p.sessions: the buffered items of the channel
    chanClosed,     \* close(p.sessions) has happened
    closed,         \* p.closed
    inflight,       \* p.inflight: the WaitGroup counter
    ptr,            \* ptr[s]: Session.ptr != 0
    prepackedWeights, \* p.prepackedWeights: "nil" | "live"
    ownsPrepackedWeights,
    pwReleased,     \* ReleasePrepackedWeightsContainer was called
    totalRuns, totalErrors, totalLatency,
    nBefore, nAfter, \* Hook.BeforeRun / Hook.AfterRun invocations so far
    caller,         \* caller[c]: the goroutine's locals, see IdleCaller
    runsReturned,   \* p.Run calls that have returned to their caller
    errsObserved,   \* of these, the ones that returned a non-nil error
    rejected,       \* of these, the ones that returned before the receive
    closePc,        \* where the goroutine calling Close is
    closeReturned,  \* the Close call that won the CAS has returned
    resetPc,        \* where the goroutine calling ResetStats is
    statsPc,        \* where the goroutine calling Stats is
    snap,           \* the PoolStats that Stats is filling in
    statsSeen,      \* the counter triples that existed during the Stats call
    ctor,           \* the goroutine in NewSessionPool[FromFile], see CtorDone
    sess,           \* a Session used on its own, see OpenSession
    slots,          \* a Session.Run call building its native arguments
    wrap,           \* one wrapper of each kind and its native handles
    bind,           \* an IoBinding and its bound outputs, see NoBinding
    prov,           \* a NewSessionWithProviderFallback call, see NoFallback
    half,           \* a float32 on its way through Float16, see NoHalf
    tens,           \* a tensor Value and the last read of its data, see NoTensor
    ropt,           \* a run and its OrtRunOptions and watcher, see NoRunOptions
    build           \* a NewSession / NewSessionFromReader call, see NoBuild

poolVars == <<capacity, sessions, chanClosed, closed, inflight, ptr, prepackedWeights,
              ownsPrepackedWeights, pwReleased>>
statVars == <<totalRuns, totalErrors, totalLatency, statsSeen>>
hookVars == <<nBefore, nAfter>>
callVars == <<caller, runsReturned, errsObserved, rejected>>
closeVars == <<closePc, closeReturned>>
obsVars == <<resetPc, statsPc, snap>>
runVars == <<statVars, hookVars, callVars, obsVars>>
libVars == <<ctor, sess, slots, wrap, bind, prov, half, tens, ropt, build>>
vars == <<poolVars, statVars, hookVars, callVars, closeVars, obsVars, libVars>>

\* The constructor's locals.  pc: where it is; n, shareWeights, fromFile,
\* emptyData: its arguments (fromFile: NewSessionPoolFromFile); i: the loop
\* index, which is also the number of sessions created so far; made: a
\* container was created; result: what it returned.
CtorDone ==
    [pc |-> "done", n |-> 0, shareWeights |-> FALSE, fromFile |-> FALSE,
     emptyData |-> FALSE, i |-> 0, made |-> FALSE, result |-> "pool"]

\* A Session s and the IoBinding b made from it.  ptr: s.ptr != 0; allocator:
\* s.runtime.allocator != nil; binding: "none" (no b yet), "live" (b.ptr != 0)
\* or "closed" (b.ptr == 0); op, result: the last method called and what it
\* returned; zeroHandle: a native function was called with a zero session
\* handle.
OpenSession ==
    [ptr |-> TRUE, allocator |-> TRUE, binding |-> "none", op |-> "none",
     result |-> "none", zeroHandle |-> FALSE]

\* Session.Run(ctx, inputs).  names: s.inputNames; inputs: the caller's map
\* (name -> *Value, NilValue for a nil pointer); pc: where the call is; i: the
\* names the loop has been through; inputNames, inputValues: the arrays Run
\* builds; passed: the (name, value handle) pairs the native Run was given.
NoRun ==
    [names |-> <<>>, inputs |-> <<>>, pc |-> "none", i |-> 0,
     inputNames |-> <<>>, inputValues |-> <<>>, passed |-> <<>>]

\* The wrappers whose Close is `if x.ptr != 0 && x.runtime != nil &&
\* x.runtime.apiFuncs != nil { Release(x.ptr); x.ptr = 0 }`.
SimpleWrappers ==
    {"Session", "Env", "IoBinding", "MemoryInfo", "LoraAdapter",
     "PrepackedWeightsContainer", "ThreadingOptions"}

WrapperKinds == SimpleWrappers \cup {"Value", "Model"}

\* The native handles: one per simple wrapper, a Value's ptr and infoPtr, and
\* the handles of a Model's session and env.
Handles ==
    SimpleWrappers \cup {"Value.ptr", "Value.infoPtr", "Model.session", "Model.env"}

\* One wrapper of each kind, as its constructor returns it.  h[x].ptr: the
\* handle is not zero; h[x].releases: native release calls made on it;
\* closes[k]: Close calls made so far; model: the Model's fields not nil, and
\* the calls of Runtime.Close it made.  A Value gets its infoPtr on first use.
NewWrappers(infoInit) ==
    [h |-> [x \in Handles |->
              [ptr |-> IF x = "Value.infoPtr" THEN infoInit ELSE TRUE,
               releases |-> 0]],
     closes |-> [k \in WrapperKinds |-> 0],
     model |-> [session |-> TRUE, env |-> TRUE, runtime |-> TRUE,
                runtimeCloses |-> 0]]

\* An IoBinding b.  outputNames: b.session.outputNames; bound: the outputs the
\* native binding holds, in the order the native library keeps them, each
\* with the name it was bound under and how ("value": BindOutput, "device":
\* BindOutputToDevice); got: whether GetOutputValues has returned; result:
\* the map it returned.
NoBinding ==
    [outputNames |-> <<>>, bound |-> <<>>, got |-> FALSE, result |-> <<>>]

\* A call of NewSessionWithProviderFallback. providers: the caller's list;
\* available, availErr: what GetAvailableProviders returns; readErr: reading
\* the model fails; loads: the providers with which creating the session
\* succeeds; cpuLoads: creating it with no provider succeeds; pc, i: where the
\* call is; session, name, err: what it returned; used: the provider the
\* returned session was created with.
NoFallback ==
    [providers |-> <<>>, available |-> {}, availErr |-> FALSE,
     readErr |-> FALSE, loads |-> {}, cpuLoads |-> FALSE,
     pc |-> "read", i |-> 1,
     session |-> FALSE, name |-> "", err |-> FALSE, used |-> ""]

\* math.Float32bits(f) in its three fields: bit 31, bits 30..23, bits 22..0.
F32(sign, exp, frac) == [sign |-> sign, exp |-> exp, frac |-> frac]

\* f: the float32 given to NewFloat16 or NewBFloat16; f16: the 16 bits made
\* of it; back: what
\* Float32() made of that; pc: which of the two exist.
NoHalf == [f |-> F32(0, 0, 0), pc |-> "f32", f16 |-> 0, back |-> F32(0, 0, 0)]

\* T, len: the type parameter and the data length NewTensorValue is called
\* with; pc: "new", then "made" (a live *Value) or "failed"; elemType: the
\* element type the native tensor was created with; fn, U: the last reader
\* called and its type parameter; err: the error it returned ("none" before
\* any call and for nil); count: the length of the slice it returned, -1 for
\* a nil slice; shape: it returned a non-nil shape.
NoTensor ==
    [T |-> "float32", len |-> 0, pc |-> "new", elemType |-> "Undefined",
     fn |-> "none", U |-> "float32", err |-> "none", count |-> -1,
     shape |-> FALSE]

\* One call of Session.run or IoBinding.Run. ctx: "nil", "background" (Done()
\* is nil), "live" or "fired"; loraAdapters: per adapter "nil" (nil or
\* closed), "ok" or "fail" (what RunOptionsAddActiveLoraAdapter returns);
\* runTag: "none" (empty), "ok" or "fail" (what RunOptionsSetRunTag returns);
\* createFails: CreateRunOptions fails; pc, li: where the caller is;
\* runOpts: the handle, "null", "live" or "released"; creates, releases:
\* calls of CreateRunOptions that made a handle and of ReleaseRunOptions;
\* passed: what the native run was given; doneClosed: close(done) happened;
\* watcher: "none", "select", "terminate" (it received from ctx.Done()) or
\* "exited"; terminates: calls of RunOptionsSetTerminate; afterRelease: one of
\* them was made on the released handle; firedInNative: ctx fired while the
\* native run was in progress; result: what the call returned.
NoRunOptions ==
    [ctx |-> "background", loraAdapters |-> <<>>, runTag |-> "none",
     createFails |-> FALSE, pc |-> "start", li |-> 1, runOpts |-> "null",
     creates |-> 0, releases |-> 0, passed |-> "none", doneClosed |-> FALSE,
     watcher |-> "none", terminates |-> 0, afterRelease |-> FALSE,
     firedInNative |-> FALSE, result |-> "none"]

\* One call of NewSession or NewSessionFromReader. fromReader: which of the
\* two; readErr, emptyData: what reading the model gives; options: options is
\* not nil; optsFail, configFail, createFail: CreateSessionOptions,
\* configureSessionOptions, CreateSession[FromArray] fails; inputCount,
\* outputCount: the model's; failAt: which native call of initializeMetadata
\* fails, counted from 1 (0: none); pc, step: where the call is; optsPtr,
\* sessionPtr: "null", "live" or "released"; optsCreates, optsReleases,
\* sessCreates, sessReleases: native handles made and released; result: what
\* the call returned.
NoBuild ==
    [fromReader |-> FALSE, readErr |-> FALSE, emptyData |-> FALSE,
     options |-> FALSE, optsFail |-> FALSE, configFail |-> FALSE,
     createFail |-> FALSE, inputCount |-> 0, outputCount |-> 0, failAt |-> 0,
     pc |-> "read", step |-> 1, optsPtr |-> "null", sessionPtr |-> "null",
     optsCreates |-> 0, optsReleases |-> 0, sessCreates |-> 0,
     sessReleases |-> 0, result |-> "none"]

\* The parts of the library a specification leaves alone.
Frame(changed) ==
    /\ IF "ctor" \in changed THEN TRUE ELSE UNCHANGED ctor
    /\ IF "sess" \in changed THEN TRUE ELSE UNCHANGED sess
    /\ IF "slots" \in changed THEN TRUE ELSE UNCHANGED slots
    /\ IF "wrap" \in changed THEN TRUE ELSE UNCHANGED wrap
    /\ IF "bind" \in changed THEN TRUE ELSE UNCHANGED bind
    /\ IF "prov" \in changed THEN TRUE ELSE UNCHANGED prov
    /\ IF "half" \in changed THEN TRUE ELSE UNCHANGED half
    /\ IF "tens" \in changed THEN TRUE ELSE UNCHANGED tens
    /\ IF "ropt" \in changed THEN TRUE ELSE UNCHANGED ropt
    /\ IF "build" \in changed THEN TRUE ELSE UNCHANGED build

\* The parts of the library a specification does not use, at rest.
LibInit(used) ==
    /\ IF "sess" \in used THEN TRUE ELSE sess = OpenSession
    /\ IF "slots" \in used THEN TRUE ELSE slots = NoRun
    /\ IF "wrap" \in used THEN TRUE ELSE wrap = NewWrappers(TRUE)
    /\ IF "bind" \in used THEN TRUE ELSE bind = NoBinding
    /\ IF "prov" \in used THEN TRUE ELSE prov = NoFallback
    /\ IF "half" \in used THEN TRUE ELSE half = NoHalf
    /\ IF "tens" \in used THEN TRUE ELSE tens = NoTensor
    /\ IF "ropt" \in used THEN TRUE ELSE ropt = NoRunOptions
    /\ IF "build" \in used THEN TRUE ELSE build = NoBuild

\* pc: where the goroutine is; op: the pool method it called; ctx: its
\* context ("background": Done() is nil, "live", "fired"); held: the session
\* Run received; runErr: session.Run returned an error; elapsed: the measured
\* duration; term: the watcher invoked RunOptionsSetTerminate; panicking: Run
\* is unwinding a panic; wi: Warmup's loop index; warm: the sessions on which
\* this Warmup's runs ran inference; calls: calls issued so far; result: what
\* the last call returned; info: Run's *RunInfo; log: what this Run has done
\* so far of: a hook's BeforeRun, the call of session.Run, its return, a
\* hook's AfterRun; seen: the RunInfo fields the AfterRun hooks were given.
NoInfo == [Duration |-> 0, Error |-> FALSE, OutputNames |-> FALSE]

IdleCaller ==
    [pc |-> "idle", op |-> "none", ctx |-> "background", held |-> NoSession,
     runErr |-> FALSE, elapsed |-> 0, term |-> FALSE, panicking |-> FALSE,
     wi |-> 0, warm |-> <<>>, calls |-> 0, result |-> "none",
     info |-> NoInfo, log |-> <<>>, seen |-> NoInfo]

Triple == <<totalRuns, totalErrors, totalLatency>>

\* NewSessionPool(runtime, env, model, n, config) returned a pool: n sessions
\* on the channel, the container if config.SharePrepackedWeights, counters
\* zero (pool.go:79-107).  Each caller goroutine has already issued `issued`
\* of its MaxCalls calls.
NewSessionPool(n, shareWeights, issued) ==
    /\ capacity = n
    /\ sessions = [i \in 1 .. n |-> i]
    /\ chanClosed = FALSE
    /\ closed = FALSE
    /\ inflight = 0
    /\ ptr = [s \in 1 .. n |-> TRUE]
    /\ ownsPrepackedWeights = shareWeights
    /\ prepackedWeights = IF shareWeights THEN "live" ELSE "nil"
    /\ pwReleased = FALSE
    /\ totalRuns = 0 /\ totalErrors = 0 /\ totalLatency = 0
    /\ nBefore = 0 /\ nAfter = 0
    /\ caller = [c \in Callers |-> [IdleCaller EXCEPT !.calls = issued]]
    /\ runsReturned = 0
    /\ errsObserved = 0
    /\ rejected = 0
    /\ closePc = "idle"
    /\ closeReturned = FALSE
    /\ resetPc = "idle"
    /\ statsPc = "idle"
    /\ snap = [TotalRuns |-> 0, TotalErrors |-> 0, TotalLatency |-> 0]
    /\ statsSeen = {}
    /\ ctor = [CtorDone EXCEPT !.n = n, !.shareWeights = shareWeights, !.i = n,
                                !.made = shareWeights]

Init ==
    /\ \E n \in 1 .. MaxPoolSize : \E shareWeights \in BOOLEAN :
          NewSessionPool(n, shareWeights, 0)
    /\ LibInit({})

SessionIds == 1 .. capacity

\* ------------------------------------------------------------ the callers
Ops == {"run", "warmup", "health"}
CtxKinds == {"background", "live", "fired"}

Goto(c, label) == caller' = [caller EXCEPT ![c].pc = label]

\* A pool method hands res to the goroutine that called it.
Returned(r, res) ==
    [r EXCEPT !.pc = "idle", !.ctx = "background", !.runErr = FALSE, !.wi = 0,
              !.warm = <<>>, !.result = res, !.elapsed = 0, !.info = NoInfo,
              !.log = <<>>, !.seen = NoInfo]

OpReturn(c, res) ==
    /\ caller' = [caller EXCEPT ![c] = Returned(@, res)]
    /\ UNCHANGED <<runsReturned, errsObserved, rejected>>

\* p.Run returns res.  Warmup goes round its loop after a successful Run
\* (pool.go:278-284); HealthCheck and Warmup hand a failing Run's error on,
\* wrapped with %w (pool.go:280, 301).
RunReturn(c, res) ==
    /\ runsReturned' = runsReturned + 1
    /\ errsObserved' = errsObserved + (IF res = "ok" THEN 0 ELSE 1)
    /\ rejected' = rejected + (IF res \in {"pool_closed", "cancelled"} THEN 1 ELSE 0)
    /\ caller' = [caller EXCEPT ![c] =
           IF @.op = "warmup" /\ res = "ok"
           THEN [@ EXCEPT !.pc = "wloop", !.wi = @ + 1, !.runErr = FALSE,
                          !.term = FALSE, !.result = "none", !.elapsed = 0,
                          !.info = NoInfo, !.log = <<>>, !.seen = NoInfo]
           ELSE Returned(@, res)]

\* A goroutine calls p.Run, p.Warmup or p.HealthCheck with a context.
Call(c, o, k) ==
    /\ caller[c].pc = "idle"
    /\ caller[c].calls < MaxCalls
    /\ caller' = [caller EXCEPT ![c] =
           [@ EXCEPT !.pc = CASE o = "run" -> "check"
                             [] o = "warmup" -> "wcheck"
                             [] o = "health" -> "hcheck",
                     !.op = o, !.ctx = k, !.calls = @ + 1, !.result = "none",
                     !.term = FALSE]]
    /\ UNCHANGED <<poolVars, statVars, hookVars, closeVars, obsVars,
                   runsReturned, errsObserved, rejected>>
    /\ UNCHANGED libVars

\* The caller's cancellation scope fires (cancel() or a deadline).
Cancel(c) ==
    /\ caller[c].ctx = "live"
    /\ caller[c].pc \notin {"idle", "panicked"}
    /\ caller' = [caller EXCEPT ![c].ctx = "fired"]
    /\ UNCHANGED <<poolVars, statVars, hookVars, closeVars, obsVars,
                   runsReturned, errsObserved, rejected>>
    /\ UNCHANGED libVars

\* pool.go:266-270
WarmupCheckClosed(c) ==
    /\ caller[c].pc = "wcheck"
    /\ IF closed
       THEN OpReturn(c, "pool_closed")
       ELSE Goto(c, "wloop") /\ UNCHANGED <<runsReturned, errsObserved, rejected>>
    /\ UNCHANGED <<poolVars, statVars, hookVars, closeVars, obsVars>>
    /\ UNCHANGED libVars

\* pool.go:271-278, 287
WarmupLoop(c) ==
    /\ caller[c].pc = "wloop"
    /\ IF caller[c].wi >= capacity
       THEN OpReturn(c, "ok")
       ELSE IF caller[c].ctx = "fired"
       THEN OpReturn(c, "cancelled")
       ELSE Goto(c, "check") /\ UNCHANGED <<runsReturned, errsObserved, rejected>>
    /\ UNCHANGED <<poolVars, statVars, hookVars, closeVars, obsVars>>
    /\ UNCHANGED libVars

\* pool.go:295-299
HealthCheckClosed(c) ==
    /\ caller[c].pc = "hcheck"
    /\ IF closed
       THEN OpReturn(c, "pool_closed")
       ELSE Goto(c, "check") /\ UNCHANGED <<runsReturned, errsObserved, rejected>>
    /\ UNCHANGED <<poolVars, statVars, hookVars, closeVars, obsVars>>
    /\ UNCHANGED libVars

\* RunCheckClosed without the test of p.closed.
RunCheckClosedSkipped(c) ==
    /\ caller[c].pc = "check"
    /\ Goto(c, "ctxerr")
    /\ UNCHANGED <<poolVars, statVars, hookVars, closeVars, obsVars,
                   runsReturned, errsObserved, rejected>>
    /\ UNCHANGED libVars

\* pool.go:160-162
RunCheckClosed(c) ==
    /\ caller[c].pc = "check"
    /\ IF closed
       THEN RunReturn(c, "pool_closed")
       ELSE Goto(c, "ctxerr") /\ UNCHANGED <<runsReturned, errsObserved, rejected>>
    /\ UNCHANGED <<poolVars, statVars, hookVars, closeVars, obsVars>>
    /\ UNCHANGED libVars

\* RunCtxErr without the fast path: the scope is looked at in the select only.
RunCtxErrSkipped(c) ==
    /\ caller[c].pc = "ctxerr"
    /\ Goto(c, "add")
    /\ UNCHANGED <<poolVars, statVars, hookVars, closeVars, obsVars,
                   runsReturned, errsObserved, rejected>>
    /\ UNCHANGED libVars

\* pool.go:165-167
RunCtxErr(c) ==
    /\ caller[c].pc = "ctxerr"
    /\ IF caller[c].ctx = "fired"
       THEN RunReturn(c, "cancelled")
       ELSE Goto(c, "add") /\ UNCHANGED <<runsReturned, errsObserved, rejected>>
    /\ UNCHANGED <<poolVars, statVars, hookVars, closeVars, obsVars>>
    /\ UNCHANGED libVars

\* pool.go:170
RunAdd(c) ==
    /\ caller[c].pc = "add"
    /\ inflight' = inflight + 1
    /\ Goto(c, "select")
    /\ UNCHANGED <<capacity, sessions, chanClosed, closed, ptr, prepackedWeights,
                   ownsPrepackedWeights, pwReleased, statVars, hookVars,
                   closeVars, obsVars, runsReturned, errsObserved, rejected>>
    /\ UNCHANGED libVars

\* RunReceive with a receive that leaves the session on the channel.
RunReceivePeek(c) ==
    /\ caller[c].pc = "select"
    /\ Len(sessions) > 0
    /\ caller' = [caller EXCEPT ![c].pc = "before", ![c].held = Head(sessions)]
    /\ UNCHANGED <<poolVars, statVars, hookVars, closeVars, obsVars,
                   runsReturned, errsObserved, rejected>>
    /\ UNCHANGED libVars

\* pool.go:176: the receive; a closed channel with nothing buffered yields nil.
RunReceive(c) ==
    /\ caller[c].pc = "select"
    /\ \/ /\ Len(sessions) > 0
          /\ caller' = [caller EXCEPT ![c].pc = "before",
                                      ![c].held = Head(sessions)]
          /\ sessions' = Tail(sessions)
       \/ /\ Len(sessions) = 0
          /\ chanClosed
          /\ caller' = [caller EXCEPT ![c].pc = "before",
                                      ![c].held = NilSession]
          /\ sessions' = sessions
    /\ UNCHANGED <<capacity, chanClosed, closed, inflight, ptr, prepackedWeights,
                   ownsPrepackedWeights, pwReleased, statVars, hookVars,
                   closeVars, obsVars, runsReturned, errsObserved, rejected>>
    /\ UNCHANGED libVars

\* RunSelectCancelled recording the cancelled call as a failed run.
RunSelectCancelledCounted(c) ==
    /\ caller[c].pc = "select"
    /\ caller[c].ctx = "fired"
    /\ caller' = [caller EXCEPT ![c].pc = "ret", ![c].result = "cancelled"]
    /\ totalRuns' = totalRuns + 1
    /\ totalErrors' = totalErrors + 1
    /\ UNCHANGED <<poolVars, totalLatency, statsSeen, hookVars, closeVars,
                   obsVars, runsReturned, errsObserved, rejected>>
    /\ UNCHANGED libVars

\* pool.go:177-178: the scope fired; Run leaves with ctx.Err(), no session taken.
RunSelectCancelled(c) ==
    /\ caller[c].pc = "select"
    /\ caller[c].ctx = "fired"
    /\ caller' = [caller EXCEPT ![c].pc = "ret", ![c].result = "cancelled"]
    /\ UNCHANGED <<poolVars, statVars, hookVars, closeVars, obsVars,
                   runsReturned, errsObserved, rejected>>
    /\ UNCHANGED libVars

\* pool.go:191-196
RunBeforeHooks(c) ==
    /\ caller[c].pc = "before"
    /\ nBefore' = nBefore + NumHooks
    /\ caller' = [caller EXCEPT
           ![c].pc = "call",
           ![c].log = @ \o [h \in 1 .. NumHooks |-> "BeforeRun"]]
    /\ UNCHANGED <<poolVars, statVars, nAfter, closeVars, obsVars,
                   runsReturned, errsObserved, rejected>>
    /\ UNCHANGED libVars

\* pool.go:200-206: session.Run has returned err (and outputs, nil when err is
\* not nil, profiling_test.go:559-567) after e; Run fills in the RunInfo.
RunInfoSet(r, err, e) ==
    [r EXCEPT !.pc = "addRuns", !.runErr = err, !.elapsed = e,
              !.log = Append(@, "Return"),
              !.info = [Duration |-> e, Error |-> err, OutputNames |-> ~err]]

\* pool.go:198-199 and Session.Run's entry (profiling_test.go:530-533, 572-583):
\* a nil *Session panics on s.ptr; a released session answers ErrSessionClosed;
\* CreateRunOptions, needed when ctx.Done() is not nil, may fail; otherwise the
\* native Run starts.
SessionRunBegin(c) ==
    /\ caller[c].pc = "call"
    /\ IF caller[c].held = NilSession
       THEN caller' = [caller EXCEPT ![c].pc = "defer", ![c].panicking = TRUE,
                                     ![c].log = Append(@, "Run")]
       ELSE IF ~ptr[caller[c].held]
       THEN \E e \in Elapsed :
              caller' = [caller EXCEPT
                  ![c] = RunInfoSet([@ EXCEPT !.log = Append(@, "Run")], TRUE, e)]
       ELSE \/ caller' = [caller EXCEPT ![c].pc = "native",
                                        ![c].log = Append(@, "Run")]
            \/ /\ caller[c].ctx # "background"
               /\ \E e \in Elapsed :
                    caller' = [caller EXCEPT
                        ![c] = RunInfoSet([@ EXCEPT !.log = Append(@, "Run")],
                                          TRUE, e)]
    /\ UNCHANGED <<poolVars, statVars, hookVars, closeVars, obsVars,
                   runsReturned, errsObserved, rejected>>
    /\ UNCHANGED libVars

\* profiling_test.go:615-622: the watcher sees ctx.Done() and sets terminate.
WatcherTerminate(c) ==
    /\ caller[c].pc = "native"
    /\ caller[c].ctx = "fired"
    /\ ~caller[c].term
    /\ caller' = [caller EXCEPT ![c].term = TRUE]
    /\ UNCHANGED <<poolVars, statVars, hookVars, closeVars, obsVars,
                   runsReturned, errsObserved, rejected>>
    /\ UNCHANGED libVars

\* profiling_test.go:682-695 and pool.go:200-206: the native Run returns, with
\* or without an error (a model error, or ORT's answer to terminate).
NativeReturn(c) ==
    /\ caller[c].pc = "native"
    /\ \E err \in BOOLEAN, e \in Elapsed :
         caller' = [caller EXCEPT
             ![c] = RunInfoSet(
                 [@ EXCEPT !.warm = IF caller[c].op = "warmup"
                                    THEN Append(@, caller[c].held) ELSE @],
                 err, e)]
    /\ UNCHANGED <<poolVars, statVars, hookVars, closeVars, obsVars,
                   runsReturned, errsObserved, rejected>>
    /\ UNCHANGED libVars

\* What a Stats call in progress could have seen of the counters.
Observe(r, e, l) ==
    statsSeen' = IF statsPc \in {"loadErrors", "loadLatency"}
                 THEN statsSeen \cup {<<r, e, l>>}
                 ELSE statsSeen

\* pool.go:208
AddTotalRuns(c) ==
    /\ caller[c].pc = "addRuns"
    /\ totalRuns' = totalRuns + 1
    /\ Observe(totalRuns + 1, totalErrors, totalLatency)
    /\ Goto(c, "addLat")
    /\ UNCHANGED <<poolVars, totalErrors, totalLatency, hookVars, closeVars,
                   obsVars, runsReturned, errsObserved, rejected>>
    /\ UNCHANGED libVars

\* pool.go:209-210
AddTotalLatency(c) ==
    /\ caller[c].pc = "addLat"
    /\ totalLatency' = totalLatency + caller[c].elapsed
    /\ Observe(totalRuns, totalErrors, totalLatency + caller[c].elapsed)
    /\ caller' = [caller EXCEPT
           ![c].pc = IF caller[c].runErr THEN "addErr" ELSE "after"]
    /\ UNCHANGED <<poolVars, totalRuns, totalErrors, hookVars, closeVars,
                   obsVars, runsReturned, errsObserved, rejected>>
    /\ UNCHANGED libVars

\* AddTotalErrors that forgets the increment.
AddTotalErrorsSkipped(c) ==
    /\ caller[c].pc = "addErr"
    /\ Goto(c, "after")
    /\ UNCHANGED <<poolVars, statVars, hookVars, closeVars, obsVars,
                   runsReturned, errsObserved, rejected>>
    /\ UNCHANGED libVars

\* pool.go:211
AddTotalErrors(c) ==
    /\ caller[c].pc = "addErr"
    /\ totalErrors' = totalErrors + 1
    /\ Observe(totalRuns, totalErrors + 1, totalLatency)
    /\ Goto(c, "after")
    /\ UNCHANGED <<poolVars, totalRuns, totalLatency, hookVars, closeVars,
                   obsVars, runsReturned, errsObserved, rejected>>
    /\ UNCHANGED libVars

\* RunAfterHooks that reports successful runs only.
RunAfterHooksOnSuccess(c) ==
    /\ caller[c].pc = "after"
    /\ nAfter' = nAfter + (IF caller[c].runErr THEN 0 ELSE NumHooks)
    /\ caller' = [caller EXCEPT
           ![c].pc = "defer",
           ![c].log = IF caller[c].runErr THEN @
                      ELSE @ \o [h \in 1 .. NumHooks |-> "AfterRun"],
           ![c].seen = IF caller[c].runErr THEN @ ELSE caller[c].info]
    /\ UNCHANGED <<poolVars, statVars, nBefore, closeVars, obsVars,
                   runsReturned, errsObserved, rejected>>
    /\ UNCHANGED libVars

\* pool.go:214-216
RunAfterHooks(c) ==
    /\ caller[c].pc = "after"
    /\ nAfter' = nAfter + NumHooks
    /\ caller' = [caller EXCEPT
           ![c].pc = "defer",
           ![c].log = @ \o [h \in 1 .. NumHooks |-> "AfterRun"],
           ![c].seen = caller[c].info]
    /\ UNCHANGED <<poolVars, statVars, nBefore, closeVars, obsVars,
                   runsReturned, errsObserved, rejected>>
    /\ UNCHANGED libVars

\* RunDeferLoadClosed treating a terminated run as poisoning its session.
RunDeferClosedOrTerminated(c) ==
    /\ caller[c].pc = "defer"
    /\ Goto(c, IF closed \/ caller[c].term THEN "sclose" ELSE "send")
    /\ UNCHANGED <<poolVars, statVars, hookVars, closeVars, obsVars,
                   runsReturned, errsObserved, rejected>>
    /\ UNCHANGED libVars

\* pool.go:183: the deferred function reads p.closed.
RunDeferLoadClosed(c) ==
    /\ caller[c].pc = "defer"
    /\ Goto(c, IF closed THEN "sclose" ELSE "send")
    /\ UNCHANGED <<poolVars, statVars, hookVars, closeVars, obsVars,
                   runsReturned, errsObserved, rejected>>
    /\ UNCHANGED libVars

\* RunSendBack with a deferred function that gives up the session of a failed
\* run without sending it back.
RunSendBackUnlessErr(c) ==
    /\ caller[c].pc = "send"
    /\ ~chanClosed
    /\ Len(sessions) < capacity
    /\ sessions' = IF caller[c].runErr THEN sessions
                   ELSE Append(sessions, caller[c].held)
    /\ caller' = [caller EXCEPT ![c].pc = "ret", ![c].held = NoSession]
    /\ UNCHANGED <<capacity, chanClosed, closed, inflight, ptr, prepackedWeights,
                   ownsPrepackedWeights, pwReleased, statVars, hookVars,
                   closeVars, obsVars, runsReturned, errsObserved, rejected>>
    /\ UNCHANGED libVars

\* pool.go:184: the send blocks while the buffer is full and panics on a closed
\* channel.
RunSendBack(c) ==
    /\ caller[c].pc = "send"
    /\ IF chanClosed
       THEN /\ caller' = [caller EXCEPT ![c].pc = "ret", ![c].panicking = TRUE]
            /\ UNCHANGED sessions
       ELSE /\ Len(sessions) < capacity
            /\ sessions' = Append(sessions, caller[c].held)
            /\ caller' = [caller EXCEPT ![c].pc = "ret", ![c].held = NoSession]
    /\ UNCHANGED <<capacity, chanClosed, closed, inflight, ptr, prepackedWeights,
                   ownsPrepackedWeights, pwReleased, statVars, hookVars,
                   closeVars, obsVars, runsReturned, errsObserved, rejected>>
    /\ UNCHANGED libVars

\* Session.Close (profiling_test.go:871-876): the native session is released
\* and the handle zeroed.
SessionClose(s) ==
    ptr' = [ptr EXCEPT ![s] = FALSE]

\* pool.go:186: session.Close() in the deferred function; on a nil *Session
\* the read of s.ptr panics.
RunCloseSession(c) ==
    /\ caller[c].pc = "sclose"
    /\ IF caller[c].held = NilSession
       THEN /\ caller' = [caller EXCEPT ![c].pc = "ret", ![c].panicking = TRUE,
                                        ![c].held = NoSession]
            /\ UNCHANGED ptr
       ELSE /\ SessionClose(caller[c].held)
            /\ caller' = [caller EXCEPT ![c].pc = "ret", ![c].held = NoSession]
    /\ UNCHANGED <<capacity, sessions, chanClosed, closed, inflight, prepackedWeights,
                   ownsPrepackedWeights, pwReleased, statVars, hookVars,
                   closeVars, obsVars, runsReturned, errsObserved, rejected>>
    /\ UNCHANGED libVars

\* pool.go:171: the deferred p.inflight.Done(), then Run returns (or the panic
\* goes on up the stack).
RunDone(c) ==
    /\ caller[c].pc = "ret"
    /\ inflight' = inflight - 1
    /\ IF caller[c].panicking
       THEN /\ caller' = [caller EXCEPT ![c].pc = "panicked",
                                        ![c].result = "panic"]
            /\ UNCHANGED <<runsReturned, errsObserved, rejected>>
       ELSE RunReturn(c, IF caller[c].result = "cancelled" THEN "cancelled"
                         ELSE IF caller[c].runErr THEN "error" ELSE "ok")
    /\ UNCHANGED <<capacity, sessions, chanClosed, closed, ptr, prepackedWeights,
                   ownsPrepackedWeights, pwReleased, statVars, hookVars,
                   closeVars, obsVars>>
    /\ UNCHANGED libVars

\* ------------------------------------------------------------------ Close
\* pool.go:318-320
CloseCAS ==
    /\ closePc \in {"idle", "done"}
    /\ IF closed
       THEN UNCHANGED <<closed, closePc>>
       ELSE /\ closed' = TRUE
            /\ closePc' = "wait"
    /\ UNCHANGED <<capacity, sessions, chanClosed, inflight, ptr, prepackedWeights,
                   ownsPrepackedWeights, pwReleased, statVars, hookVars, callVars,
                   closeReturned, obsVars>>
    /\ UNCHANGED libVars

\* pool.go:323
CloseWait ==
    /\ closePc = "wait"
    /\ inflight = 0
    /\ closePc' = "closechan"
    /\ UNCHANGED <<poolVars, statVars, hookVars, callVars, closeReturned, obsVars>>
    /\ UNCHANGED libVars

\* pool.go:326
CloseChannel ==
    /\ closePc = "closechan"
    /\ chanClosed' = TRUE
    /\ closePc' = "drain"
    /\ UNCHANGED <<capacity, sessions, closed, inflight, ptr, prepackedWeights,
                   ownsPrepackedWeights, pwReleased, statVars, hookVars, callVars,
                   closeReturned, obsVars>>
    /\ UNCHANGED libVars

\* pool.go:327-329: one round of the range loop.
CloseDrain ==
    /\ closePc = "drain"
    /\ IF Len(sessions) > 0
       THEN /\ SessionClose(Head(sessions))
            /\ sessions' = Tail(sessions)
            /\ UNCHANGED closePc
       ELSE /\ closePc' = "weights"
            /\ UNCHANGED <<sessions, ptr>>
    /\ UNCHANGED <<capacity, chanClosed, closed, inflight, prepackedWeights,
                   ownsPrepackedWeights, pwReleased, statVars, hookVars, callVars,
                   closeReturned, obsVars>>
    /\ UNCHANGED libVars

\* pool.go:332-336, and Close returns.
CloseWeights ==
    /\ closePc = "weights"
    /\ IF ownsPrepackedWeights /\ prepackedWeights # "nil"
       THEN /\ pwReleased' = TRUE
            /\ prepackedWeights' = "nil"
       ELSE UNCHANGED <<pwReleased, prepackedWeights>>
    /\ closePc' = "done"
    /\ closeReturned' = TRUE
    /\ UNCHANGED <<capacity, sessions, chanClosed, closed, inflight, ptr,
                   ownsPrepackedWeights, statVars, hookVars, callVars, obsVars>>
    /\ UNCHANGED libVars

\* ---------------------------------------------------- Stats and ResetStats
\* pool.go:234: the first of the three loads of Stats (the goroutine calls
\* Stats once).
StatsLoadRuns ==
    /\ statsPc = "idle"
    /\ snap' = [TotalRuns |-> totalRuns, TotalErrors |-> 0, TotalLatency |-> 0]
    /\ statsSeen' = {Triple}
    /\ statsPc' = "loadErrors"
    /\ UNCHANGED <<poolVars, totalRuns, totalErrors, totalLatency, hookVars,
                   callVars, closeVars, resetPc>>
    /\ UNCHANGED libVars

\* pool.go:235
StatsLoadErrors ==
    /\ statsPc = "loadErrors"
    /\ snap' = [snap EXCEPT !.TotalErrors = totalErrors]
    /\ statsPc' = "loadLatency"
    /\ UNCHANGED <<poolVars, statVars, hookVars, callVars, closeVars, resetPc>>
    /\ UNCHANGED libVars

\* pool.go:236-239, and Stats returns snap.
StatsLoadLatency ==
    /\ statsPc = "loadLatency"
    /\ snap' = [snap EXCEPT !.TotalLatency = totalLatency]
    /\ statsPc' = "done"
    /\ UNCHANGED <<poolVars, statVars, hookVars, callVars, closeVars, resetPc>>
    /\ UNCHANGED libVars

\* pool.go:311
ResetStoreRuns ==
    /\ resetPc = "idle"
    /\ totalRuns' = 0
    /\ Observe(0, totalErrors, totalLatency)
    /\ resetPc' = "storeErrors"
    /\ UNCHANGED <<poolVars, totalErrors, totalLatency, hookVars, callVars,
                   closeVars, statsPc, snap>>
    /\ UNCHANGED libVars

\* pool.go:312
ResetStoreErrors ==
    /\ resetPc = "storeErrors"
    /\ totalErrors' = 0
    /\ Observe(totalRuns, 0, totalLatency)
    /\ resetPc' = "storeLatency"
    /\ UNCHANGED <<poolVars, totalRuns, totalLatency, hookVars, callVars,
                   closeVars, statsPc, snap>>
    /\ UNCHANGED libVars

\* pool.go:313, and ResetStats returns (the goroutine calls it once).
ResetStoreLatency ==
    /\ resetPc = "storeLatency"
    /\ totalLatency' = 0
    /\ Observe(totalRuns, totalErrors, 0)
    /\ resetPc' = "done"
    /\ UNCHANGED <<poolVars, totalRuns, totalErrors, hookVars, callVars,
                   closeVars, statsPc, snap>>
    /\ UNCHANGED libVars

\* ------------------------------------------------------- the specification
\* The steps of Run on an open pool whose scope does not fire on the way.
RunOpenStep(c) ==
    \/ RunCheckClosed(c) \/ RunCtxErr(c) \/ RunAdd(c) \/ RunReceive(c)
    \/ RunBeforeHooks(c) \/ SessionRunBegin(c) \/ NativeReturn(c)
    \/ AddTotalRuns(c) \/ AddTotalLatency(c) \/ AddTotalErrors(c)
    \/ RunAfterHooks(c) \/ RunDeferLoadClosed(c) \/ RunSendBack(c)
    \/ RunDone(c)

RunStep(c) ==
    \/ RunOpenStep(c)
    \/ RunSelectCancelled(c) \/ WatcherTerminate(c)
    \/ RunCloseSession(c)

CloseStep ==
    CloseCAS \/ CloseWait \/ CloseChannel \/ CloseDrain \/ CloseWeights

\* Goroutines calling Run with any context, their scopes firing, and one
\* goroutine calling Close.
Next ==
    \/ \E c \in Callers : \E k \in CtxKinds : Call(c, "run", k)
    \/ \E c \in Callers : Cancel(c)
    \/ \E c \in Callers : RunStep(c)
    \/ CloseStep

Spec == Init /\ [][Next]_vars

\* The same goroutines calling Run, Warmup and HealthCheck.
OpStep(c) ==
    WarmupCheckClosed(c) \/ WarmupLoop(c) \/ HealthCheckClosed(c)

NextOps ==
    \/ \E c \in Callers : \E o \in Ops : \E k \in {"background", "fired"} :
          Call(c, o, k)
    \/ \E c \in Callers : OpStep(c)
    \/ \E c \in Callers : RunOpenStep(c) \/ RunCloseSession(c)
    \/ CloseStep

\* Each goroutine has one call left.
InitOps ==
    /\ \E n \in 1 .. MaxPoolSize : \E shareWeights \in BOOLEAN :
          NewSessionPool(n, shareWeights, MaxCalls - 1)
    /\ LibInit({})

SpecOps == InitOps /\ [][NextOps]_vars

\* Goroutines with one Run call left each, on a pool of one session, while
\* one goroutine calls Stats and one calls ResetStats.
InitStats == NewSessionPool(1, FALSE, MaxCalls - 1) /\ LibInit({})

StatsStep == StatsLoadRuns \/ StatsLoadErrors \/ StatsLoadLatency

ResetStep == ResetStoreRuns \/ ResetStoreErrors \/ ResetStoreLatency

NextStats ==
    \/ \E c \in Callers : Call(c, "run", "background")
    \/ \E c \in Callers : RunOpenStep(c)
    \/ StatsStep
    \/ ResetStep

SpecStats == InitStats /\ [][NextStats]_vars

\* ------------------------------------------------- NewSessionPool[FromFile]
\* Nothing exists yet; a goroutine calls NewSessionPool (fromFile:
\* NewSessionPoolFromFile) with n, config.SharePrepackedWeights and, for
\* NewSessionPool, model data that may be empty.
InitNew ==
    /\ capacity = 0 /\ sessions = <<>> /\ ptr = <<>>
    /\ chanClosed = FALSE /\ closed = FALSE /\ inflight = 0
    /\ ownsPrepackedWeights = FALSE /\ prepackedWeights = "nil"
    /\ pwReleased = FALSE
    /\ totalRuns = 0 /\ totalErrors = 0 /\ totalLatency = 0
    /\ nBefore = 0 /\ nAfter = 0
    /\ caller = [c \in Callers |-> [IdleCaller EXCEPT !.calls = MaxCalls]]
    /\ runsReturned = 0 /\ errsObserved = 0 /\ rejected = 0
    /\ closePc = "idle" /\ closeReturned = FALSE
    /\ resetPc = "idle" /\ statsPc = "idle"
    /\ snap = [TotalRuns |-> 0, TotalErrors |-> 0, TotalLatency |-> 0]
    /\ statsSeen = {}
    /\ \E n \in 0 .. MaxPoolSize, shareWeights, fromFile, emptyData \in BOOLEAN :
          /\ fromFile => ~emptyData
          /\ ctor = [pc |-> "args", n |-> n, shareWeights |-> shareWeights,
                     fromFile |-> fromFile, emptyData |-> emptyData, i |-> 0,
                     made |-> FALSE, result |-> "none"]
    /\ LibInit({})

\* pool.go:63-83, 112-130: the argument checks and make(chan *Session, n).
NewCheckArgs ==
    /\ ctor.pc = "args"
    /\ IF ctor.n <= 0 \/ (~ctor.fromFile /\ ctor.emptyData)
       THEN /\ ctor' = [ctor EXCEPT !.pc = "done", !.result = "error"]
            /\ UNCHANGED <<capacity, ptr>>
       ELSE /\ ctor' = [ctor EXCEPT !.pc = "weights"]
            /\ capacity' = ctor.n
            /\ ptr' = [s \in 1 .. ctor.n |-> FALSE]
    /\ UNCHANGED <<sessions, chanClosed, closed, inflight, prepackedWeights,
                   ownsPrepackedWeights, pwReleased, runVars, closeVars>>
    /\ Frame({"ctor"})

\* pool.go:85-92, 132-139
NewContainer ==
    /\ ctor.pc = "weights"
    /\ IF ~ctor.shareWeights
       THEN /\ ctor' = [ctor EXCEPT !.pc = "loop"]
            /\ UNCHANGED <<prepackedWeights, ownsPrepackedWeights>>
       ELSE \/ /\ ctor' = [ctor EXCEPT !.pc = "loop", !.made = TRUE]
               /\ prepackedWeights' = "live"
               /\ ownsPrepackedWeights' = TRUE
            \/ /\ ctor' = [ctor EXCEPT !.pc = "done", !.result = "error"]
               /\ UNCHANGED <<prepackedWeights, ownsPrepackedWeights>>
    /\ UNCHANGED <<capacity, sessions, chanClosed, closed, inflight, ptr,
                   pwReleased, runVars, closeVars>>
    /\ Frame({"ctor"})

\* NewSession that returns the error without cleaning up.
NewSessionNoCleanup ==
    /\ ctor.pc = "loop"
    /\ IF ctor.i >= ctor.n
       THEN /\ ctor' = [ctor EXCEPT !.pc = "done", !.result = "pool"]
            /\ UNCHANGED <<sessions, ptr>>
       ELSE \/ /\ ptr' = [ptr EXCEPT ![ctor.i + 1] = TRUE]
               /\ sessions' = Append(sessions, ctor.i + 1)
               /\ ctor' = [ctor EXCEPT !.i = @ + 1]
            \/ /\ ctor' = [ctor EXCEPT !.pc = "done", !.result = "error"]
               /\ UNCHANGED <<sessions, ptr>>
    /\ UNCHANGED <<capacity, chanClosed, closed, inflight, prepackedWeights,
                   ownsPrepackedWeights, pwReleased, runVars, closeVars>>
    /\ Frame({"ctor"})

\* pool.go:94-107, 141-154: one round of the loop (the session is created and
\* sent to the channel, or its creation fails and pool.Close() is called), or
\* the loop's end.
NewSession ==
    /\ ctor.pc = "loop"
    /\ IF ctor.i >= ctor.n
       THEN /\ ctor' = [ctor EXCEPT !.pc = "done", !.result = "pool"]
            /\ UNCHANGED <<sessions, ptr>>
       ELSE \/ /\ ptr' = [ptr EXCEPT ![ctor.i + 1] = TRUE]
               /\ sessions' = Append(sessions, ctor.i + 1)
               /\ ctor' = [ctor EXCEPT !.i = @ + 1]
            \/ /\ ctor' = [ctor EXCEPT !.pc = "close"]
               /\ UNCHANGED <<sessions, ptr>>
    /\ UNCHANGED <<capacity, chanClosed, closed, inflight, prepackedWeights,
                   ownsPrepackedWeights, pwReleased, runVars, closeVars>>
    /\ Frame({"ctor"})

\* pool.go:97, 144: pool.Close(), step by step.
NewClose ==
    /\ ctor.pc = "close"
    /\ closePc # "done"
    /\ CloseStep

\* pool.go:98, 145
NewReturnError ==
    /\ ctor.pc = "close"
    /\ closePc = "done"
    /\ ctor' = [ctor EXCEPT !.pc = "done", !.result = "error"]
    /\ UNCHANGED <<poolVars, runVars, closeVars>>
    /\ Frame({"ctor"})

NextNew ==
    NewCheckArgs \/ NewContainer \/ NewSession \/ NewClose \/ NewReturnError

SpecNew == InitNew /\ [][NextNew]_vars

\* ---------------------------------------------------------------- Session
\* The pool at rest: built, with no goroutine calling into it.
PoolAtRest == NewSessionPool(1, FALSE, MaxCalls)

SessionOps ==
    {"Run", "NewIoBinding", "GetModelMetadata", "EndProfiling",
     "ProfilingStartTimeNs", "GetInputInfo", "GetOutputInfo"}

\* A method of Session that begins with `if s.ptr == 0 { return ...,
\* ErrSessionClosed }` and then hands s.ptr to a native function, which
\* succeeds or reports an error.
SessionCall(op) ==
    /\ sess.result # "crash"
    /\ IF ~sess.ptr
       THEN sess' = [sess EXCEPT !.op = op, !.result = "ErrSessionClosed"]
       ELSE IF op = "GetModelMetadata" /\ ~sess.allocator
       THEN sess' = [sess EXCEPT !.op = op, !.result = "error"]
       ELSE \E r \in {"ok", "error"} :
              sess' = [sess EXCEPT
                  !.op = op, !.result = r,
                  !.binding = IF op = "NewIoBinding" /\ r = "ok"
                              THEN "live" ELSE @]
    /\ UNCHANGED <<poolVars, runVars, closeVars>>
    /\ Frame({"sess"})

\* Session.Close
SessionCloseCall ==
    /\ sess.result # "crash"
    /\ sess' = [sess EXCEPT !.ptr = FALSE, !.op = "Close", !.result = "none"]
    /\ UNCHANGED <<poolVars, runVars, closeVars>>
    /\ Frame({"sess"})

\* IoBinding.Run(ctx): the run options are made when ctx can be cancelled,
\* which may fail; then RunWithBinding is given b.session.ptr as it is.  What
\* the native library does with a zero session handle is not defined: it
\* reports an error or the process dies.
IoBindingRun ==
    /\ sess.result # "crash"
    /\ sess.binding # "none"
    /\ \E k \in {"background", "live"} :
          \/ /\ k = "live"
             /\ sess' = [sess EXCEPT !.op = "IoBinding.Run", !.result = "error"]
          \/ \E r \in IF sess.ptr THEN {"ok", "error"} ELSE {"error", "crash"} :
                sess' = [sess EXCEPT !.op = "IoBinding.Run", !.result = r,
                                     !.zeroHandle = @ \/ ~sess.ptr]
    /\ UNCHANGED <<poolVars, runVars, closeVars>>
    /\ Frame({"sess"})

\* IoBinding.Close
IoBindingClose ==
    /\ sess.result # "crash"
    /\ sess.binding # "none"
    /\ sess' = [sess EXCEPT !.binding = "closed", !.op = "IoBinding.Close",
                            !.result = "none"]
    /\ UNCHANGED <<poolVars, runVars, closeVars>>
    /\ Frame({"sess"})

\* An open session of a runtime with or without its default allocator.
InitSession ==
    /\ PoolAtRest
    /\ LibInit({"sess"})
    /\ \E a \in BOOLEAN : sess = [OpenSession EXCEPT !.allocator = a]

NextSession ==
    \/ \E op \in SessionOps : SessionCall(op)
    \/ SessionCloseCall
    \/ IoBindingRun
    \/ IoBindingClose

SpecSession == InitSession /\ [][NextSession]_vars

\* ------------------------------------------------------------ Session.Run
MaxInputs == 2         \* largest number of inputs a model declares
MaxValue == 1          \* the caller's tensors are 1 .. MaxValue
NilValue == 0          \* a nil *Value, and the null OrtValue handle

TensorNames == {"a", "b", "c"}

\* The sequences of distinct names of length at most MaxInputs.
NameLists ==
    {q \in UNION {[1 .. k -> TensorNames] : k \in 0 .. MaxInputs} :
        \A i, j \in DOMAIN q : i # j => q[i] # q[j]}

\* The caller's maps: any keys, each with a tensor or a nil pointer.
InputMaps ==
    UNION {[K -> NilValue .. MaxValue] : K \in SUBSET TensorNames}

\* run hands the native Run the bytes of the name, NUL-terminated (the cached
\* form when the name is one of the session's), and v.ptr, or 0 for nil.
Slot(name, v, names) ==
    [name |-> name,
     cached |-> \E i \in DOMAIN names : names[i] = name,
     value |-> IF v = NilValue THEN 0 ELSE v]

InitRun ==
    /\ PoolAtRest
    /\ LibInit({"slots"})
    /\ \E q \in NameLists, m \in InputMaps :
          slots = [NoRun EXCEPT !.names = q, !.inputs = m, !.pc = "build"]

\* SessionRunLoop that leaves an absent input out instead of passing an empty
\* slot.
SessionRunLoopCompacting ==
    /\ slots.pc = "build"
    /\ LET i == slots.i + 1 IN
         IF i > Len(slots.names)
         THEN slots' = [slots EXCEPT !.pc = "run"]
         ELSE IF slots.names[i] \in DOMAIN slots.inputs
         THEN slots' = [slots EXCEPT
                  !.i = i,
                  !.inputNames = Append(@, slots.names[i]),
                  !.inputValues = Append(@, slots.inputs[slots.names[i]])]
         ELSE slots' = [slots EXCEPT !.i = i]
    /\ UNCHANGED <<poolVars, runVars, closeVars>>
    /\ Frame({"slots"})

\* profiling_test.go:546-554: one round of the loop over s.inputNames.
SessionRunLoop ==
    /\ slots.pc = "build"
    /\ LET i == slots.i + 1 IN
         IF i > Len(slots.names)
         THEN slots' = [slots EXCEPT !.pc = "run"]
         ELSE IF slots.names[i] \in DOMAIN slots.inputs
         THEN slots' = [slots EXCEPT
                  !.i = i,
                  !.inputNames = Append(@, slots.names[i]),
                  !.inputValues = Append(@, slots.inputs[slots.names[i]])]
         ELSE slots' = [slots EXCEPT
                  !.i = i,
                  !.inputNames = Append(@, ""),
                  !.inputValues = Append(@, NilValue)]
    /\ UNCHANGED <<poolVars, runVars, closeVars>>
    /\ Frame({"slots"})

\* Session.run (profiling_test.go:635-691): the pointer arrays are built and
\* the native Run is called with &inputNamePtrs[0], &inputValuePtrs[0] and
\* len(inputs); indexing an empty array panics.
SessionRunNative ==
    /\ slots.pc = "run"
    /\ IF Len(slots.inputNames) = 0
       THEN slots' = [slots EXCEPT !.pc = "panic"]
       ELSE slots' = [slots EXCEPT
                !.pc = "native",
                !.passed = [i \in 1 .. Len(slots.inputNames) |->
                              Slot(slots.inputNames[i], slots.inputValues[i],
                                   slots.names)]]
    /\ UNCHANGED <<poolVars, runVars, closeVars>>
    /\ Frame({"slots"})

NextRun == SessionRunLoop \/ SessionRunNative

SpecRun == InitRun /\ [][NextRun]_vars

\* ------------------------------------------------------------------ Close
MaxCloses == 2         \* Close calls made on one wrapper

\* HandleClose that forgets to zero the handle.
HandleCloseKeepingPtr(hs, x) ==
    IF hs[x].ptr
    THEN [hs EXCEPT ![x] = [ptr |-> TRUE, releases |-> @.releases + 1]]
    ELSE hs

\* `if x.ptr != 0 && ... { Release(x.ptr); x.ptr = 0 }`; the wrapper's runtime
\* and its function table are those it was made with.
HandleClose(hs, x) ==
    IF hs[x].ptr
    THEN [hs EXCEPT ![x] = [ptr |-> FALSE, releases |-> @.releases + 1]]
    ELSE hs

\* Session.Close, Env.Close, IoBinding.Close, MemoryInfo.Close,
\* LoraAdapter.Close, PrepackedWeightsContainer.Close, ThreadingOptions.Close
WrapperClose(k) ==
    /\ wrap.closes[k] < MaxCloses
    /\ wrap' = [wrap EXCEPT !.closes[k] = @ + 1, !.h = HandleClose(@, k)]
    /\ UNCHANGED <<poolVars, runVars, closeVars>>
    /\ Frame({"wrap"})

\* Value.Close (value.go:148-165): releaseValue, then releaseInfo.
ValueClose ==
    /\ wrap.closes["Value"] < MaxCloses
    /\ wrap' = [wrap EXCEPT
           !.closes["Value"] = @ + 1,
           !.h = HandleClose(HandleClose(@, "Value.ptr"), "Value.infoPtr")]
    /\ UNCHANGED <<poolVars, runVars, closeVars>>
    /\ Frame({"wrap"})

\* Model.Close (model_test.go:290-303)
ModelClose ==
    /\ wrap.closes["Model"] < MaxCloses
    /\ wrap' = [wrap EXCEPT
           !.closes["Model"] = @ + 1,
           !.h = LET h1 == IF wrap.model.session
                           THEN HandleClose(@, "Model.session") ELSE @
                 IN IF wrap.model.env THEN HandleClose(h1, "Model.env") ELSE h1,
           !.model = [session |-> FALSE, env |-> FALSE, runtime |-> FALSE,
                      runtimeCloses |-> @.runtimeCloses
                                          + (IF @.runtime THEN 1 ELSE 0)]]
    /\ UNCHANGED <<poolVars, runVars, closeVars>>
    /\ Frame({"wrap"})

\* SessionPool.Close on a pool no goroutine is running on, called again and
\* again.
PoolClose == CloseStep

InitClose ==
    /\ \E shareWeights \in BOOLEAN : NewSessionPool(1, shareWeights, MaxCalls)
    /\ LibInit({"wrap"})
    /\ \E infoInit \in BOOLEAN : wrap = NewWrappers(infoInit)

NextClose ==
    \/ \E k \in SimpleWrappers : WrapperClose(k)
    \/ ValueClose
    \/ ModelClose
    \/ PoolClose

SpecClose == InitClose /\ [][NextClose]_vars

\* ---------------------------------------------------------------- IoBinding
MaxOutputs == 2        \* largest number of outputs a model declares

OutputLists == {q \in NameLists : Len(q) >= 1 /\ Len(q) <= MaxOutputs}

InitBinding ==
    /\ PoolAtRest
    /\ LibInit({"bind"})
    /\ \E q \in OutputLists : bind = [NoBinding EXCEPT !.outputNames = q]

\* The native binding after binding output `name`: an output bound before is
\* rebound in place, a new one goes to the end.
NativeBindOutput(bound, name, how) ==
    IF \E i \in DOMAIN bound : bound[i].name = name
    THEN [i \in DOMAIN bound |->
            IF bound[i].name = name THEN [name |-> name, how |-> how]
            ELSE bound[i]]
    ELSE Append(bound, [name |-> name, how |-> how])

\* IoBinding.BindOutput(name, value) (part_005:203-211) and
\* IoBinding.BindOutputToDevice(name, memInfo) (part_005:214-222), for an
\* output of the model.
BindOutput(name, how) ==
    /\ \E i \in DOMAIN bind.outputNames : bind.outputNames[i] = name
    /\ bind' = [bind EXCEPT !.bound = NativeBindOutput(@, name, how),
                            !.got = FALSE, !.result = <<>>]
    /\ UNCHANGED <<poolVars, runVars, closeVars>>
    /\ Frame({"bind"})

\* IoBinding.ClearOutputs (part_005:276-278)
ClearOutputs ==
    /\ bind.bound # <<>>
    /\ bind' = [bind EXCEPT !.bound = <<>>, !.got = FALSE, !.result = <<>>]
    /\ UNCHANGED <<poolVars, runVars, closeVars>>
    /\ Frame({"bind"})

\* IoBinding.GetOutputValues (part_005:242-268): GetBoundOutputValues yields
\* the bound outputs' values in the binding's order; value i is stored under
\* b.session.outputNames[i].
GetOutputValues ==
    /\ ~bind.got
    /\ bind' = [bind EXCEPT
           !.got = TRUE,
           !.result = [k \in {bind.outputNames[i] : i \in DOMAIN bind.bound}
                         |-> LET i == CHOOSE i \in DOMAIN bind.bound :
                                         bind.outputNames[i] = k
                             IN bind.bound[i]]]
    /\ UNCHANGED <<poolVars, runVars, closeVars>>
    /\ Frame({"bind"})

NextBinding ==
    \/ \E name \in TensorNames, how \in {"value", "device"} :
          BindOutput(name, how)
    \/ ClearOutputs
    \/ GetOutputValues

SpecBinding == InitBinding /\ [][NextBinding]_vars

\* -------------------------------------------- NewSessionWithProviderFallback
MaxProviders == 2      \* longest preference list a caller passes

CPUExecutionProvider == "CPUExecutionProvider"

ProviderNames ==
    {"CUDAExecutionProvider", "NonExistentProvider", CPUExecutionProvider}

ProviderLists ==
    UNION {[1 .. n -> ProviderNames] : n \in 0 .. MaxProviders}

\* The library was built with the CPU provider and perhaps with CUDA.
AvailableLists ==
    {{CPUExecutionProvider}, {CPUExecutionProvider, "CUDAExecutionProvider"}}

InitFallback ==
    /\ PoolAtRest
    /\ LibInit({"prov"})
    /\ \E ps \in ProviderLists, av \in AvailableLists,
          ld \in SUBSET {"CUDAExecutionProvider", CPUExecutionProvider},
          cpu \in BOOLEAN, re \in BOOLEAN, ae \in BOOLEAN :
          prov = [NoFallback EXCEPT !.providers = ps, !.available = av,
                                    !.loads = ld, !.cpuLoads = cpu,
                                    !.readErr = re, !.availErr = ae]

FallbackStep(next) ==
    /\ prov' = next
    /\ UNCHANGED <<poolVars, runVars, closeVars>>
    /\ Frame({"prov"})

\* provider.go:29-33: io.ReadAll(modelReader)
FallbackRead ==
    /\ prov.pc = "read"
    /\ FallbackStep(IF prov.readErr
                    THEN [prov EXCEPT !.pc = "done", !.err = TRUE]
                    ELSE [prov EXCEPT !.pc = "available"])

\* provider.go:35-39: r.GetAvailableProviders()
FallbackAvailable ==
    /\ prov.pc = "available"
    /\ FallbackStep(IF prov.availErr
                    THEN [prov EXCEPT !.pc = "done", !.err = TRUE]
                    ELSE [prov EXCEPT !.pc = "loop"])

\* provider.go:41-55 without the slices.Contains test
FallbackTryUnchecked ==
    /\ prov.pc = "loop"
    /\ prov.i <= Len(prov.providers)
    /\ LET provider == prov.providers[prov.i] IN
       FallbackStep(IF provider \notin prov.loads
                    THEN [prov EXCEPT !.i = @ + 1]
                    ELSE [prov EXCEPT !.pc = "done", !.session = TRUE,
                                      !.name = provider, !.used = provider])

\* provider.go:41-55: one iteration of the loop over the providers
FallbackTry ==
    /\ prov.pc = "loop"
    /\ prov.i <= Len(prov.providers)
    /\ LET provider == prov.providers[prov.i] IN
       FallbackStep(IF provider \notin prov.available
                    THEN [prov EXCEPT !.i = @ + 1]
                    ELSE IF provider \notin prov.loads
                    THEN [prov EXCEPT !.i = @ + 1]
                    ELSE [prov EXCEPT !.pc = "done", !.session = TRUE,
                                      !.name = provider, !.used = provider])

\* provider.go:57-64: the loop is over, the session is created with
\* opts.ExecutionProviders = nil
FallbackCPU ==
    /\ prov.pc = "loop"
    /\ prov.i > Len(prov.providers)
    /\ FallbackStep(IF prov.cpuLoads
                    THEN [prov EXCEPT !.pc = "done", !.session = TRUE,
                                      !.name = CPUExecutionProvider,
                                      !.used = CPUExecutionProvider]
                    ELSE [prov EXCEPT !.pc = "done", !.err = TRUE])

NextFallback ==
    \/ FallbackRead
    \/ FallbackAvailable
    \/ FallbackTry
    \/ FallbackCPU

SpecFallback == InitFallback /\ [][NextFallback]_vars

\* ------------------------------------------------------------------ Float16
\* x | 1
BitOr1(x) == IF x % 2 = 1 THEN x ELSE x + 1

\* NewFloat16 (float16.go:9-37) without the "| 1" of the NaN case
NewFloat16DroppingPayload(bits) ==
    LET sign == bits.sign * 32768
        exp == bits.exp - 127
        frac == bits.frac
    IN  IF exp = 128
        THEN IF frac = 0 THEN sign + 31744
             ELSE sign + 31744 + (frac \div 8192)
        ELSE IF exp > 15 THEN sign + 31744
        ELSE IF exp > -15 THEN sign + (exp + 15) * 1024 + (frac \div 8192)
        ELSE IF exp >= -24
        THEN sign + ((frac + 8388608) \div (2 ^ ((-14 - exp) + 13)))
        ELSE sign

\* NewFloat16 (float16.go:9-37). The fields that are or-ed together have no
\* bit in common, so the or is a sum: sign is bit 15, 0x7C00 and (exp+15)<<10
\* are bits 14..10, frac>>13 and the shifted subnormal are bits 9..0.
NewFloat16(bits) ==
    LET sign == bits.sign * 32768
        exp == bits.exp - 127
        frac == bits.frac
    IN  IF exp = 128
        THEN IF frac = 0 THEN sign + 31744
             ELSE sign + 31744 + BitOr1(frac \div 8192)
        ELSE IF exp > 15 THEN sign + 31744
        ELSE IF exp > -15 THEN sign + (exp + 15) * 1024 + (frac \div 8192)
        ELSE IF exp >= -24
        THEN sign + ((frac + 8388608) \div (2 ^ ((-14 - exp) + 13)))
        ELSE sign

\* float16.go:51-54: for frac&0x400 == 0 { frac <<= 1; exp-- }. exp is a
\* uint32 that wraps below zero; of exp only the low 9 bits survive the
\* "<< 23" that follows, so exp is kept modulo 2^9.
RECURSIVE Normalize(_, _)
Normalize(frac, exp) ==
    IF (frac \div 1024) % 2 = 0
    THEN Normalize(frac * 2, (exp + 511) % 512)
    ELSE <<frac, exp>>

\* Float16.Float32 (float16.go:40-66)
Float32(f) ==
    LET sign == f \div 32768
        exp == (f \div 1024) % 32
        frac == f % 1024
    IN  IF exp = 0
        THEN IF frac = 0 THEN F32(sign, 0, 0)
             ELSE LET n == Normalize(frac, exp)
                      e == (((n[2] + 1) % 512) + 127 - 15) % 512
                  IN  F32(IF e >= 256 THEN 1 ELSE sign, e % 256,
                          (n[1] % 1024) * 8192)
        ELSE IF exp = 31 THEN F32(sign, 255, frac * 8192)
        ELSE F32(sign, exp + 127 - 15, frac * 8192)

\* The exponent fields and fractions the float32 inputs are made of: those of
\* the values the tests convert, the ends of each case of NewFloat16, and
\* NaN payloads in the low and in the high bits.
ExpFields == {0, 60, 102, 103, 112, 113, 126, 127, 128, 142, 143, 254, 255}

Fractions == {0, 1, 8191, 8192, 3990792, 4194304, 4411392, 8380416, 8388607}

InitHalf ==
    /\ PoolAtRest
    /\ LibInit({"half"})
    /\ \E sign \in {0, 1}, exp \in ExpFields, frac \in Fractions :
          half = [NoHalf EXCEPT !.f = F32(sign, exp, frac)]

\* f16 := NewFloat16(f)
Float16New ==
    /\ half.pc = "f32"
    /\ half' = [half EXCEPT !.pc = "f16", !.f16 = NewFloat16(half.f)]
    /\ UNCHANGED <<poolVars, runVars, closeVars>>
    /\ Frame({"half"})

\* got := f16.Float32()
Float16Float32 ==
    /\ half.pc = "f16"
    /\ half' = [half EXCEPT !.pc = "back", !.back = Float32(half.f16)]
    /\ UNCHANGED <<poolVars, runVars, closeVars>>
    /\ Frame({"half"})

NextHalf ==
    \/ Float16New
    \/ Float16Float32

SpecHalf == InitHalf /\ [][NextHalf]_vars

\* -------------------------------------------------------------- tensor data
MaxElems == 2          \* longest data slice given to NewTensorValue

\* The types the three type switches of value.go have a case for.
ElementTypes ==
    {"float32", "float64", "int8", "int16", "int32", "int64", "uint8",
     "Float16", "BFloat16", "uint16", "uint32", "uint64", "bool"}

\* An element type is written by the name of its constant,
\* ONNXTensorElementDataType<name>.
\* The switch of NewTensorValue (value.go:178-221)
DataType(T) ==
    CASE T = "float32" -> "Float"
      [] T = "float64" -> "Double"
      [] T = "int8" -> "Int8"
      [] T = "int16" -> "Int16"
      [] T = "int32" -> "Int32"
      [] T = "int64" -> "Int64"
      [] T = "uint8" -> "Uint8"
      [] T = "Float16" -> "Float16"
      [] T = "BFloat16" -> "BFloat16"
      [] T = "uint16" -> "Uint16"
      [] T = "uint32" -> "Uint32"
      [] T = "uint64" -> "Uint64"
      [] T = "bool" -> "Bool"

\* The switch of GetTensorDataUnsafe (value.go:269-297)
ExpectedTypeUnsafe(U) ==
    CASE U = "float32" -> "Float"
      [] U = "float64" -> "Double"
      [] U = "int8" -> "Int8"
      [] U = "int16" -> "Int16"
      [] U = "int32" -> "Int32"
      [] U = "int64" -> "Int64"
      [] U = "uint8" -> "Uint8"
      [] U = "Float16" -> "Float16"
      [] U = "BFloat16" -> "BFloat16"
      [] U = "uint16" -> "Uint16"
      [] U = "uint32" -> "Uint32"
      [] U = "uint64" -> "Uint64"
      [] U = "bool" -> "Bool"

\* The switch of GetTensorData deciding by the underlying type, which sends
\* Float16 and BFloat16 to uint16
ExpectedTypeUnderlying(U) ==
    CASE U = "float32" -> "Float"
      [] U = "float64" -> "Double"
      [] U = "int8" -> "Int8"
      [] U = "int16" -> "Int16"
      [] U = "int32" -> "Int32"
      [] U = "int64" -> "Int64"
      [] U = "uint8" -> "Uint8"
      [] U = "Float16" -> "Uint16"
      [] U = "BFloat16" -> "Uint16"
      [] U = "uint16" -> "Uint16"
      [] U = "uint32" -> "Uint32"
      [] U = "uint64" -> "Uint64"
      [] U = "bool" -> "Bool"

\* The switch of GetTensorData (value.go:335-363)
ExpectedType(U) ==
    CASE U = "float32" -> "Float"
      [] U = "float64" -> "Double"
      [] U = "int8" -> "Int8"
      [] U = "int16" -> "Int16"
      [] U = "int32" -> "Int32"
      [] U = "int64" -> "Int64"
      [] U = "uint8" -> "Uint8"
      [] U = "Float16" -> "Float16"
      [] U = "BFloat16" -> "BFloat16"
      [] U = "uint16" -> "Uint16"
      [] U = "uint32" -> "Uint32"
      [] U = "uint64" -> "Uint64"
      [] U = "bool" -> "Bool"

InitTensor ==
    /\ PoolAtRest
    /\ LibInit({"tens"})
    /\ \E T \in ElementTypes, n \in 0 .. MaxElems :
          tens = [NoTensor EXCEPT !.T = T, !.len = n]

TensorStep(next) ==
    /\ tens' = next
    /\ UNCHANGED <<poolVars, runVars, closeVars>>
    /\ Frame({"tens"})

\* NewTensorValue[T] (value.go:170-227): empty data is refused, else the
\* native tensor is created with the element type of T's case.
NewTensorValue ==
    /\ tens.pc = "new"
    /\ TensorStep(IF tens.len = 0
                  THEN [tens EXCEPT !.pc = "failed"]
                  ELSE [tens EXCEPT !.pc = "made",
                                    !.elemType = DataType(tens.T)])

\* What either reader returns for a tensor whose element type is elemType
\* when its type parameter's case is expectedType.
ReadTensor(fn, U, expectedType) ==
    IF tens.elemType # expectedType
    THEN [tens EXCEPT !.fn = fn, !.U = U, !.err = "element type mismatch",
                      !.count = -1, !.shape = FALSE]
    ELSE [tens EXCEPT !.fn = fn, !.U = U, !.err = "none",
                      !.count = tens.len, !.shape = TRUE]

\* GetTensorDataUnsafe[U] (value.go:257-315) on the live value
GetTensorDataUnsafe(U) ==
    /\ tens.pc = "made"
    /\ TensorStep(ReadTensor("GetTensorDataUnsafe", U, ExpectedTypeUnsafe(U)))

\* GetTensorData[U] (value.go:321-388) on the live value
GetTensorData(U) ==
    /\ tens.pc = "made"
    /\ TensorStep(ReadTensor("GetTensorData", U, ExpectedType(U)))

NextTensor ==
    \/ NewTensorValue
    \/ \E U \in ElementTypes : GetTensorDataUnsafe(U)
    \/ \E U \in ElementTypes : GetTensorData(U)

SpecTensor == InitTensor /\ [][NextTensor]_vars


\* ----------------------------------------------------------------- BFloat16
\* NewBFloat16 (float16.go:73-76): bits >> 16
NewBFloat16(bits) ==
    bits.sign * 32768 + bits.exp * 128 + (bits.frac \div 65536)

\* BFloat16.Float32 (float16.go:79-81): uint32(f) << 16
BFloat16Float32(f) ==
    F32(f \div 32768, (f \div 128) % 256, (f % 128) * 65536)

\* The fractions of the Float16 inputs and the two around the 16 bits that a
\* BFloat16 drops.
BrainFractions == Fractions \cup {65535, 65536}

InitBrain ==
    /\ PoolAtRest
    /\ LibInit({"half"})
    /\ \E sign \in {0, 1}, exp \in ExpFields, frac \in BrainFractions :
          half = [NoHalf EXCEPT !.f = F32(sign, exp, frac)]

\* bf16 := NewBFloat16(f)
BFloat16New ==
    /\ half.pc = "f32"
    /\ half' = [half EXCEPT !.pc = "f16", !.f16 = NewBFloat16(half.f)]
    /\ UNCHANGED <<poolVars, runVars, closeVars>>
    /\ Frame({"half"})

\* got := bf16.Float32()
BFloat16Back ==
    /\ half.pc = "f16"
    /\ half' = [half EXCEPT !.pc = "back", !.back = BFloat16Float32(half.f16)]
    /\ UNCHANGED <<poolVars, runVars, closeVars>>
    /\ Frame({"half"})

NextBrain ==
    \/ BFloat16New
    \/ BFloat16Back

SpecBrain == InitBrain /\ [][NextBrain]_vars


\* ------------------------------------------------- Session.run's run options
MaxAdapters == 2       \* most LoRA adapters given to one run

AdapterLists ==
    UNION {[1 .. n -> {"nil", "ok", "fail"}] : n \in 0 .. MaxAdapters}

\* ctx != nil && ctx.Done() != nil
Observable(ctx) == ctx \in {"live", "fired"}

\* profiling_test.go:573
NeedsRunOpts(r) ==
    Observable(r.ctx) \/ Len(r.loraAdapters) > 0 \/ r.runTag # "none"

InitRunOpts ==
    /\ PoolAtRest
    /\ LibInit({"ropt"})
    /\ \E ctx \in {"nil", "background", "live", "fired"},
          ads \in AdapterLists, tag \in {"none", "ok", "fail"},
          cf \in BOOLEAN :
          ropt = [NoRunOptions EXCEPT !.ctx = ctx, !.loraAdapters = ads,
                                      !.runTag = tag, !.createFails = cf]

RunOptsStep(next) ==
    /\ ropt' = next
    /\ UNCHANGED <<poolVars, runVars, closeVars>>
    /\ Frame({"ropt"})

\* The caller's cancel(): ctx.Done() is closed.
RunOptsCancel ==
    /\ ropt.ctx = "live"
    /\ RunOptsStep([ropt EXCEPT !.ctx = "fired",
                                !.firedInNative = (ropt.pc = "native")])

\* createRunOptions, profiling_test.go:573-583: no run options unless needed,
\* else CreateRunOptions.
CreateRunOptions ==
    /\ ropt.pc = "start"
    /\ RunOptsStep(
         IF ~NeedsRunOpts(ropt)
         THEN [ropt EXCEPT !.pc = "native", !.passed = "null"]
         ELSE IF ropt.createFails
         THEN [ropt EXCEPT !.pc = "done", !.result = "error"]
         ELSE [ropt EXCEPT !.pc = "lora", !.runOpts = "live",
                           !.creates = @ + 1])

\* AddLoraAdapter returning the error without ReleaseRunOptions
AddLoraAdapterLeaking ==
    /\ ropt.pc = "lora"
    /\ ropt.li <= Len(ropt.loraAdapters)
    /\ RunOptsStep(
         IF ropt.loraAdapters[ropt.li] = "fail"
         THEN [ropt EXCEPT !.pc = "done", !.result = "error"]
         ELSE [ropt EXCEPT !.li = @ + 1])

\* createRunOptions, profiling_test.go:586-595: one adapter of the loop
AddLoraAdapter ==
    /\ ropt.pc = "lora"
    /\ ropt.li <= Len(ropt.loraAdapters)
    /\ RunOptsStep(
         IF ropt.loraAdapters[ropt.li] = "fail"
         THEN [ropt EXCEPT !.pc = "done", !.result = "error",
                           !.runOpts = "released", !.releases = @ + 1]
         ELSE [ropt EXCEPT !.li = @ + 1])

\* createRunOptions, profiling_test.go:597-605: the run tag
SetRunTag ==
    /\ ropt.pc = "lora"
    /\ ropt.li > Len(ropt.loraAdapters)
    /\ RunOptsStep(
         IF ropt.runTag = "fail"
         THEN [ropt EXCEPT !.pc = "done", !.result = "error",
                           !.runOpts = "released", !.releases = @ + 1]
         ELSE [ropt EXCEPT !.pc = "spawn"])

\* createRunOptions, profiling_test.go:611-623: the watcher goroutine is
\* started if ctx can fire; run then goes on to the native call with runOpts.
SpawnWatcher ==
    /\ ropt.pc = "spawn"
    /\ RunOptsStep([ropt EXCEPT
           !.pc = "native", !.passed = "handle",
           !.watcher = IF Observable(ropt.ctx) THEN "select" ELSE "none"])

\* A watcher that goes on to terminate without waiting for ctx.Done().
WatcherSelectCtxUnfired ==
    /\ ropt.watcher = "select"
    /\ RunOptsStep([ropt EXCEPT !.watcher = "terminate"])

\* The watcher's select, case <-ctx.Done() (profiling_test.go:618)
WatcherSelectCtx ==
    /\ ropt.watcher = "select"
    /\ ropt.ctx = "fired"
    /\ RunOptsStep([ropt EXCEPT !.watcher = "terminate"])

\* The watcher calls RunOptionsSetTerminate(runOpts) and exits
\* (profiling_test.go:619, and wg.Done at 616).
WatcherSetTerminate ==
    /\ ropt.watcher = "terminate"
    /\ RunOptsStep([ropt EXCEPT
           !.watcher = "exited", !.terminates = @ + 1,
           !.afterRelease = @ \/ (ropt.runOpts = "released")])

\* The watcher's select, case <-done (profiling_test.go:620)
WatcherSelectDone ==
    /\ ropt.watcher = "select"
    /\ ropt.doneClosed
    /\ RunOptsStep([ropt EXCEPT !.watcher = "exited"])

\* run, profiling_test.go:648-702: the native Run returns nil or an error,
\* or taking &inputNamePtrs[0] of an empty slice panics; the deferred
\* cleanup comes next in each case.
RunNative ==
    /\ ropt.pc = "native"
    /\ \E out \in {"ok", "error", "panic"} :
          RunOptsStep([ropt EXCEPT !.pc = "cleanup", !.result = out])

\* The deferred cleanup: the empty func() {} of profiling_test.go:576 when no
\* run options were made, else close(done) (profiling_test.go:626).
CleanupCloseDone ==
    /\ ropt.pc = "cleanup"
    /\ RunOptsStep(IF ropt.passed = "null"
                   THEN [ropt EXCEPT !.pc = "done"]
                   ELSE [ropt EXCEPT !.doneClosed = TRUE, !.pc = "wait"])

\* cleanup without the wg.Wait() of profiling_test.go:627
CleanupReleaseUnjoined ==
    /\ ropt.pc = "wait"
    /\ RunOptsStep([ropt EXCEPT !.pc = "done", !.runOpts = "released",
                                !.releases = @ + 1])

\* cleanup, profiling_test.go:627-628: wg.Wait() returns once the watcher,
\* if there is one, has exited; then ReleaseRunOptions(runOpts).
CleanupRelease ==
    /\ ropt.pc = "wait"
    /\ ropt.watcher \in {"none", "exited"}
    /\ RunOptsStep([ropt EXCEPT !.pc = "done", !.runOpts = "released",
                                !.releases = @ + 1])

NextRunOpts ==
    \/ RunOptsCancel
    \/ CreateRunOptions
    \/ AddLoraAdapter
    \/ SetRunTag
    \/ SpawnWatcher
    \/ WatcherSelectCtx
    \/ WatcherSetTerminate
    \/ WatcherSelectDone
    \/ RunNative
    \/ CleanupCloseDone
    \/ CleanupRelease

SpecRunOpts == InitRunOpts /\ [][NextRunOpts]_vars


\* ------------------------------------------------ IoBinding.Run's run options
\* The binding's session is open or was closed after NewIoBinding.
InitBindRun ==
    /\ PoolAtRest
    /\ LibInit({"ropt", "sess"})
    /\ \E p \in BOOLEAN :
          sess = [OpenSession EXCEPT !.ptr = p, !.binding = "live"]
    /\ \E ctx \in {"nil", "background", "live", "fired"}, cf \in BOOLEAN :
          ropt = [NoRunOptions EXCEPT !.ctx = ctx, !.createFails = cf]

\* createRunOptionsForCtx, README.md:430-439
ForCtxCreateRunOptions ==
    /\ ropt.pc = "start"
    /\ RunOptsStep(
         IF ~Observable(ropt.ctx)
         THEN [ropt EXCEPT !.pc = "native", !.passed = "null"]
         ELSE IF ropt.createFails
         THEN [ropt EXCEPT !.pc = "done", !.result = "error"]
         ELSE [ropt EXCEPT !.pc = "spawn", !.runOpts = "live",
                           !.creates = @ + 1])

\* createRunOptionsForCtx, README.md:441-456: the watcher is started and
\* IoBinding.Run goes on to RunWithBinding with the handle.
ForCtxSpawnWatcher ==
    /\ ropt.pc = "spawn"
    /\ RunOptsStep([ropt EXCEPT !.pc = "native", !.passed = "handle",
                                !.watcher = "select"])

\* The watcher's select, case <-ctx.Done() (README.md:445)
ForCtxWatcherSelectCtx ==
    /\ ropt.watcher = "select"
    /\ ropt.ctx = "fired"
    /\ RunOptsStep([ropt EXCEPT !.watcher = "terminate"])

\* The watcher calls RunOptionsSetTerminate(runOpts) (README.md:446) and
\* exits.
ForCtxWatcherSetTerminate ==
    /\ ropt.watcher = "terminate"
    /\ RunOptsStep([ropt EXCEPT
           !.watcher = "exited", !.terminates = @ + 1,
           !.afterRelease = @ \/ (ropt.runOpts = "released")])

\* The watcher's select, case <-done (README.md:447)
ForCtxWatcherSelectDone ==
    /\ ropt.watcher = "select"
    /\ ropt.doneClosed
    /\ RunOptsStep([ropt EXCEPT !.watcher = "exited"])

\* IoBinding.Run, part_005:234-238: RunWithBinding is given b.session.ptr as
\* it is and returns; with a zero session handle it reports an error or the
\* process dies.
BindRunNative ==
    /\ ropt.pc = "native"
    /\ \E out \in IF sess.ptr THEN {"ok", "error"} ELSE {"error", "crash"} :
          ropt' = [ropt EXCEPT !.result = out,
                      !.pc = IF out = "crash" THEN "crashed" ELSE "cleanup"]
    /\ sess' = [sess EXCEPT !.op = "IoBinding.Run",
                            !.zeroHandle = @ \/ ~sess.ptr]
    /\ UNCHANGED <<poolVars, runVars, closeVars>>
    /\ Frame({"ropt", "sess"})

\* The deferred cleanup (part_005:232): the empty func() {} of README.md:432
\* when no run options were made, else close(done) (README.md:452).
ForCtxCleanupCloseDone ==
    /\ ropt.pc = "cleanup"
    /\ RunOptsStep(IF ropt.passed = "null"
                   THEN [ropt EXCEPT !.pc = "done"]
                   ELSE [ropt EXCEPT !.doneClosed = TRUE, !.pc = "wait"])

\* cleanup, README.md:453: ReleaseRunOptions(runOpts), whatever the watcher
\* is doing
ForCtxCleanupRelease ==
    /\ ropt.pc = "wait"
    /\ RunOptsStep([ropt EXCEPT !.pc = "done", !.runOpts = "released",
                                !.releases = @ + 1])

NextBindRun ==
    \/ RunOptsCancel
    \/ ForCtxCreateRunOptions
    \/ ForCtxSpawnWatcher
    \/ ForCtxWatcherSelectCtx
    \/ ForCtxWatcherSetTerminate
    \/ ForCtxWatcherSelectDone
    \/ BindRunNative
    \/ ForCtxCleanupCloseDone
    \/ ForCtxCleanupRelease

SpecBindRun == InitBindRun /\ [][NextBindRun]_vars


\* ------------------------------------------------------- panics inside Run
\* RunHookPanics with a panic that unwinds past the deferred function of
\* pool.go:182-188
RunHookPanicsPastDefer(c) ==
    /\ caller[c].pc \in {"before", "after"}
    /\ caller' = [caller EXCEPT ![c].pc = "ret", ![c].panicking = TRUE]
    /\ UNCHANGED <<poolVars, statVars, hookVars, closeVars, obsVars,
                   runsReturned, errsObserved, rejected>>
    /\ UNCHANGED libVars

\* pool.go:194-196, 214-216: a hook's BeforeRun or AfterRun panics; the
\* deferred functions of Run come next.
RunHookPanics(c) ==
    /\ caller[c].pc \in {"before", "after"}
    /\ caller' = [caller EXCEPT ![c].pc = "defer", ![c].panicking = TRUE]
    /\ UNCHANGED <<poolVars, statVars, hookVars, closeVars, obsVars,
                   runsReturned, errsObserved, rejected>>
    /\ UNCHANGED libVars

\* pool.go:199: session.Run panics (profiling_test.go:685, &inputNamePtrs[0]
\* of a session without inputs); the deferred functions of Run come next.
RunSessionPanics(c) ==
    /\ caller[c].pc = "native"
    /\ caller' = [caller EXCEPT ![c].pc = "defer", ![c].panicking = TRUE]
    /\ UNCHANGED <<poolVars, statVars, hookVars, closeVars, obsVars,
                   runsReturned, errsObserved, rejected>>
    /\ UNCHANGED libVars

\* Goroutines with one Run call left each, hooks and session runs that may
\* panic, and one goroutine calling Close.
NextPanic ==
    \/ \E c \in Callers : Call(c, "run", "background")
    \/ \E c \in Callers : RunOpenStep(c) \/ RunCloseSession(c)
    \/ \E c \in Callers : RunHookPanics(c)
    \/ \E c \in Callers : RunSessionPanics(c)
    \/ CloseStep

SpecPanic == InitOps /\ [][NextPanic]_vars


\* -------------------------------------- NewSession / NewSessionFromReader
\* The native calls initializeMetadata makes: two counts and every name.
MetadataCalls(b) == 2 + b.inputCount + b.outputCount

InitBuild ==
    /\ PoolAtRest
    /\ LibInit({"build"})
    /\ \E fr \in BOOLEAN, re \in BOOLEAN, ed \in BOOLEAN, op \in BOOLEAN,
          of \in BOOLEAN, cf \in BOOLEAN, sf \in BOOLEAN,
          ic \in 0 .. MaxInputs, oc \in 0 .. MaxOutputs :
          \E fa \in 0 .. 2 + ic + oc :
             /\ fr \/ (~re /\ ~ed)
             /\ build = [NoBuild EXCEPT
                    !.fromReader = fr, !.readErr = re, !.emptyData = ed,
                    !.options = op, !.optsFail = of, !.configFail = cf,
                    !.createFail = sf, !.inputCount = ic, !.outputCount = oc,
                    !.failAt = fa]

\* The function returns res; the deferred function of
\* profiling_test.go:290-294 (343-347), registered once the options handle
\* exists, releases it.
BuildReturn(b, res) ==
    [b EXCEPT !.pc = "done", !.result = res,
              !.optsPtr = IF b.optsPtr = "live" THEN "released" ELSE @,
              !.optsReleases = IF b.optsPtr = "live" THEN @ + 1 ELSE @]

BuildStep(next) ==
    /\ build' = next
    /\ UNCHANGED <<poolVars, runVars, closeVars>>
    /\ Frame({"build"})

\* NewSessionFromReader, profiling_test.go:328-335; NewSession reads nothing.
BuildRead ==
    /\ build.pc = "read"
    /\ BuildStep(IF build.fromReader /\ (build.readErr \/ build.emptyData)
                 THEN BuildReturn(build, "error")
                 ELSE [build EXCEPT !.pc = "opts"])

\* profiling_test.go:284-294 (337-347): CreateSessionOptions when options is
\* not nil
BuildOptions ==
    /\ build.pc = "opts"
    /\ BuildStep(IF ~build.options THEN [build EXCEPT !.pc = "create"]
                 ELSE IF build.optsFail THEN BuildReturn(build, "error")
                 ELSE [build EXCEPT !.pc = "config", !.optsPtr = "live",
                                    !.optsCreates = @ + 1])

\* profiling_test.go:296-298 (349-351): configureSessionOptions
BuildConfigure ==
    /\ build.pc = "config"
    /\ BuildStep(IF build.configFail THEN BuildReturn(build, "error")
                 ELSE [build EXCEPT !.pc = "create"])

\* profiling_test.go:301-313 (354-365): CreateSession / CreateSessionFromArray
BuildCreate ==
    /\ build.pc = "create"
    /\ BuildStep(IF build.createFail THEN BuildReturn(build, "error")
                 ELSE [build EXCEPT !.pc = "meta", !.sessionPtr = "live",
                                    !.sessCreates = @ + 1])

\* BuildMetadata returning the error of initializeMetadata without
\* session.Close()
BuildMetadataLeaking ==
    /\ build.pc = "meta"
    /\ BuildStep(
         IF build.step = build.failAt
         THEN BuildReturn(build, "error")
         ELSE IF build.step = MetadataCalls(build)
         THEN BuildReturn(build, "session")
         ELSE [build EXCEPT !.step = @ + 1])

\* profiling_test.go:316-321 (368-373) and initializeMetadata (377-413): one
\* native call of initializeMetadata; when it fails the session is closed
\* (Session.Close, 869-876) and the error returned; after the last one the
\* session is returned.
BuildMetadata ==
    /\ build.pc = "meta"
    /\ BuildStep(
         IF build.step = build.failAt
         THEN BuildReturn([build EXCEPT !.sessionPtr = "released",
                                        !.sessReleases = @ + 1], "error")
         ELSE IF build.step = MetadataCalls(build)
         THEN BuildReturn(build, "session")
         ELSE [build EXCEPT !.step = @ + 1])

NextBuild ==
    \/ BuildRead
    \/ BuildOptions
    \/ BuildConfigure
    \/ BuildCreate
    \/ BuildMetadata

SpecBuild == InitBuild /\ [][NextBuild]_vars


\* ------------------------------------------------------ Close under fairness
\* Goroutines with one Run call left each, whose contexts never fire, and one
\* goroutine calling Close.
NextLive ==
    \/ \E c \in Callers : Call(c, "run", "background")
    \/ \E c \in Callers : RunOpenStep(c) \/ RunCloseSession(c)
    \/ CloseStep

\* Every goroutine that can take a step of Run or of Close eventually takes
\* it; native runs and hooks return. Nobody is obliged to call Run or Close.
Fairness ==
    /\ \A c \in Callers : WF_vars(RunOpenStep(c) \/ RunCloseSession(c))
    /\ WF_vars(CloseWait \/ CloseChannel \/ CloseDrain \/ CloseWeights)

SpecLive == InitOps /\ [][NextLive]_vars /\ Fairness


\* The run-options machinery with a watcher goroutine that is scheduled
\* whenever it can act on a fired context. The native call is not obliged to
\* return, and the caller is not obliged to cancel.
SpecRunOptsFair ==
    /\ SpecRunOpts
    /\ WF_vars(WatcherSelectCtx)
    /\ WF_vars(WatcherSetTerminate)

\* ------------------------------------------------------------- the claims
InNative(c) == caller[c].pc = "native"

Holders(s) == {c \in Callers : caller[c].held = s}

OnChannel(s) == {i \in 1 .. Len(sessions) : sessions[i] = s}

\* C1: at most one caller at a time executes the native run of any given
\* session of the pool, whatever Run, cancellation and Close do meanwhile.
SingleWriter ==
    \A s \in SessionIds :
        Cardinality({c \in Callers : InNative(c) /\ caller[c].held = s}) <= 1

\* C1's case: one caller is in the native run of a session while another is
\* in the select and finds the channel empty.
SingleWriterWitness ==
    \E c, d \in Callers :
        /\ InNative(c) /\ caller[c].held \in SessionIds
        /\ caller[d].pc = "select" /\ Len(sessions) = 0 /\ ~chanClosed

\* C2: on an open pool every session is either on the channel once or
\* checked out by exactly one Run, so Available plus checked-out equals the
\* pool's size; no session is lost or duplicated.
PoolPreservation ==
    ~closed =>
        /\ \A s \in SessionIds :
               Cardinality(OnChannel(s)) + Cardinality(Holders(s)) = 1
        /\ Len(sessions)
             + Cardinality({c \in Callers : caller[c].held \in SessionIds})
           = capacity

\* C2's case: on an open pool, after a failed run and a cancelled one, a
\* session is checked out again.
PoolPreservationWitness ==
    /\ ~closed
    /\ totalErrors > 0
    /\ rejected > 0
    /\ \E c \in Callers : caller[c].held \in SessionIds /\ caller[c].calls = MaxCalls

\* C3: when the Close call that closed the pool has returned, no Run is in
\* (or will get into) a native run and every session has been released.
CloseWaitsForRuns ==
    closeReturned =>
        /\ \A c \in Callers : ~InNative(c)
        /\ \A s \in SessionIds : ~ptr[s]

\* C4: on a closed pool Run, Warmup and HealthCheck fail at their first test
\* with the pool-closed error: nothing is checked out, no hook is called, no
\* native run starts and the three counters stay as they were.
ClosedPoolRejects ==
    [][\A c \in Callers :
          (/\ closed
           /\ caller[c].pc \in {"check", "wcheck", "hcheck"}
           /\ caller'[c].pc # caller[c].pc)
          => /\ caller'[c].pc = "idle"
             /\ caller'[c].result = "pool_closed"
             /\ caller'[c].held = NoSession
             /\ UNCHANGED <<poolVars, statVars, hookVars>>]_vars

\* C4's case: a Run and a Warmup were both turned away by the closed pool.
ClosedPoolRejectsWitness ==
    /\ closed
    /\ totalRuns = 0 /\ nBefore = 0
    /\ \E c, d \in Callers :
          /\ caller[c].pc = "idle" /\ caller[c].op = "run"
          /\ caller[c].result = "pool_closed"
          /\ caller[d].pc = "idle" /\ caller[d].op = "warmup"
          /\ caller[d].result = "pool_closed"

\* C5: a Run whose scope is already cancelled when it is submitted to an open
\* pool returns the cancellation error from the fast path; the channel, the
\* sessions, the hooks and the counters are as before (total_runs stays 0).
PreCancelledRunIsRejected ==
    [][\A c \in Callers :
          (caller[c].ctx = "fired" /\ caller'[c].pc # caller[c].pc)
          => /\ (caller[c].pc = "check" /\ ~closed)
                => /\ caller'[c].pc = "ctxerr"
                   /\ UNCHANGED <<poolVars, statVars, hookVars>>
             /\ (caller[c].pc = "ctxerr")
                => /\ caller'[c].pc = "idle"
                   /\ caller'[c].result = "cancelled"
                   /\ caller'[c].held = NoSession
                   /\ UNCHANGED <<poolVars, statVars, hookVars>>]_vars

\* C5's case: on a pool of one session a caller's first Run was turned away
\* as cancelled, nothing was recorded, and its next Run has the session.
PreCancelledRunWitness ==
    /\ capacity = 1 /\ ~closed
    /\ runsReturned = 1 /\ rejected = 1 /\ errsObserved = 1
    /\ totalRuns = 0 /\ totalErrors = 0
    /\ \E c \in Callers :
          /\ caller[c].calls = MaxCalls /\ InNative(c) /\ caller[c].held = 1
          /\ \A d \in Callers \ {c} : caller[d].calls = 0

\* C6: a Run that leaves the select because its scope fired takes no session:
\* channel, sessions, hooks and counters are untouched by that step and by
\* its return, which only undoes the Run's own in-flight increment.
CancelledWaitConsumesNothing ==
    [][\A c \in Callers :
          /\ (caller[c].pc = "select" /\ caller'[c].pc = "ret")
             => /\ caller'[c].result = "cancelled"
                /\ caller'[c].held = NoSession
                /\ \A d \in Callers \ {c} : caller'[d] = caller[d]
                /\ UNCHANGED <<poolVars, statVars, hookVars>>
          /\ (/\ caller[c].pc = "ret" /\ caller[c].result = "cancelled"
              /\ caller'[c].pc # "ret")
             => /\ caller'[c].pc = "idle"
                /\ caller'[c].result = "cancelled"
                /\ inflight' = inflight - 1
                /\ \A d \in Callers \ {c} : caller'[d] = caller[d]
                /\ UNCHANGED <<capacity, sessions, chanClosed, closed, ptr,
                               prepackedWeights, pwReleased, statVars,
                               hookVars>>]_vars

\* C6's case: the scope fired while the Run was blocked, the channel being
\* empty and the only session in another caller's hands.
CancelledWaitWitness ==
    \E c, d \in Callers :
        /\ caller[c].pc = "ret" /\ caller[c].result = "cancelled"
        /\ Len(sessions) = 0 /\ ~chanClosed /\ capacity = 1
        /\ caller[d].held = 1

\* C7: the deferred function of a Run whose native call was terminated by
\* the watcher and failed sends the session back whenever it finds the pool
\* open, the session unreleased; and no session of an open pool is released.
CancelledRunKeepsSession ==
    /\ [](~closed => \A s \in SessionIds : ptr[s])
    /\ [][\A c \in Callers :
             (caller[c].term /\ caller[c].runErr)
             => /\ (/\ caller[c].pc = "defer" /\ ~closed
                    /\ caller'[c].pc # "defer")
                   => caller'[c].pc = "send"
                /\ (caller[c].pc = "send" /\ caller'[c].pc # "send")
                   => /\ sessions' = Append(sessions, caller[c].held)
                      /\ ptr[caller[c].held]
                      /\ ptr' = ptr
                      /\ ~caller'[c].panicking]_vars

\* C7's case: on an open pool of one session a terminated, failed Run has
\* returned and another Run is in the native call on that same session.
CancelledRunWitness ==
    /\ capacity = 1 /\ ~closed
    /\ \E c, d \in Callers :
          /\ caller[c].pc = "idle" /\ caller[c].term
          /\ caller[c].result = "error"
          /\ InNative(d) /\ caller[d].held = 1

AllReturned ==
    \A c \in Callers : caller[c].pc = "idle" /\ caller[c].calls = MaxCalls

\* C8 as stated: once the K callers have returned from their M Run calls,
\* total_runs is K*M and total_errors is the number of errors they observed.
RecordedRunsEqualCalls ==
    AllReturned =>
        /\ totalRuns = NumCallers * MaxCalls
        /\ totalErrors = errsObserved

\* C8 as amended: with no ResetStats, once the K callers have returned from
\* their M Run calls, total_runs is K*M less the calls turned away before
\* checkout (pool closed, scope cancelled), and total_errors is the number
\* of errors the callers observed less those same calls.
RecordedRunsEqualCheckouts ==
    AllReturned =>
        /\ runsReturned = NumCallers * MaxCalls
        /\ totalRuns = NumCallers * MaxCalls - rejected
        /\ totalErrors = errsObserved - rejected

\* C8's case: all callers are back; some call was turned away, some run
\* failed and some run succeeded.
RecordedRunsWitness ==
    /\ AllReturned
    /\ rejected > 0
    /\ totalErrors > 0
    /\ totalRuns > totalErrors

\* C9: in every reachable state, under any interleaving of Run and
\* ResetStats, total_errors <= total_runs.
ErrorsAtMostRuns ==
    totalErrors <= totalRuns

\* C10: the PoolStats that Stats returns holds the values the three counters
\* had together at some instant of the call.
StatsSnapshotCoherent ==
    statsPc = "done" =>
        <<snap.TotalRuns, snap.TotalErrors, snap.TotalLatency>> \in statsSeen

\* C11: a Warmup that returns nil on an open pool of capacity N has run
\* inference on each of the N sessions exactly once (N runs, one per session).
WarmupRunsEverySession ==
    [][\A c \in Callers :
          (/\ ~closed
           /\ caller[c].op = "warmup" /\ caller[c].pc = "wloop"
           /\ caller[c].wi >= capacity /\ caller'[c].pc = "idle")
          => /\ Len(caller[c].warm) = capacity
             /\ \A s \in SessionIds :
                   Cardinality({i \in 1 .. Len(caller[c].warm) :
                                   caller[c].warm[i] = s}) = 1]_vars

\* What a Run that checked out a session does, in order: every hook's
\* BeforeRun, session.Run, its return, every hook's AfterRun.
HookOrder ==
    [h \in 1 .. NumHooks |-> "BeforeRun"] \o <<"Run", "Return">>
        \o [h \in 1 .. NumHooks |-> "AfterRun"]

IsPrefix(p, q) == Len(p) <= Len(q) /\ SubSeq(q, 1, Len(p)) = p

\* C12: a Run that checked out a session calls every hook's BeforeRun once
\* before session.Run and every hook's AfterRun once after it has returned,
\* on error too; AfterRun is given the measured duration, the run's error,
\* and output names that are empty exactly when the run failed.
HooksBracketRun ==
    \A c \in Callers :
        /\ caller[c].held \in SessionIds
           => /\ IsPrefix(caller[c].log, HookOrder)
              /\ caller[c].pc = "native"
                 => caller[c].log = SubSeq(HookOrder, 1, NumHooks + 1)
              /\ caller[c].pc \in {"addRuns", "addLat", "addErr", "after"}
                 => caller[c].log = SubSeq(HookOrder, 1, NumHooks + 2)
        /\ (\/ caller[c].held \in SessionIds
                 /\ caller[c].pc \in {"defer", "send", "sclose"}
            \/ caller[c].pc = "ret" /\ ~caller[c].panicking
                 /\ caller[c].result # "cancelled")
           => /\ caller[c].log = HookOrder
              /\ caller[c].seen.Duration = caller[c].elapsed
              /\ caller[c].seen.Duration \in Elapsed
              /\ caller[c].seen.Error = caller[c].runErr
              /\ caller[c].seen.OutputNames = ~caller[c].runErr

\* C12's case: a Run whose session.Run failed has called the AfterRun hooks
\* and is about to return the error, another Run being in its native call.
HooksBracketRunWitness ==
    \E c, d \in Callers :
        /\ caller[c].pc = "ret" /\ caller[c].runErr /\ ~caller[c].panicking
        /\ caller[c].log = HookOrder /\ caller[c].seen.Error
        /\ nAfter = NumHooks
        /\ caller[d].pc = "native"

\* C13: when a constructor returns an error after session creation failed,
\* every session created before is released and off the channel and the
\* container the pool created is released; and the container is only ever
\* released once no session is live.
FailedConstructorCleansUp ==
    /\ [](ctor.pc = "done" /\ ctor.result = "error"
            => /\ \A s \in 1 .. ctor.i : ~ptr[s]
               /\ sessions = <<>>
               /\ ctor.made => pwReleased /\ prepackedWeights = "nil")
    /\ [][pwReleased' /\ ~pwReleased
            => \A s \in 1 .. ctor.i : ~ptr[s]]_vars

\* C13's case: the second session's creation failed, the pool owning a
\* container, and the constructor has returned the error.
FailedConstructorWitness ==
    /\ ctor.pc = "done" /\ ctor.result = "error"
    /\ ctor.n = 2 /\ ctor.i = 1 /\ ctor.made
    /\ closed /\ pwReleased

\* C14: a closed session stays closed; every operation on it, running an
\* IoBinding made from it included, returns ErrSessionClosed, and no native
\* function is ever given the zero session handle.
ClosedSessionRejects ==
    /\ ~sess.zeroHandle
    /\ (~sess.ptr /\ sess.op \in SessionOps \cup {"IoBinding.Run"})
       => sess.result = "ErrSessionClosed"

\* C15: the native Run is given one slot per session input name, in the
\* declared order: the name and the caller's value when the map has that
\* key, the empty name and the null handle when it has not; keys that are
\* not input names reach the native call nowhere.
RunPassesOneSlotPerInput ==
    slots.pc = "native" =>
        /\ Len(slots.passed) = Len(slots.names)
        /\ \A i \in 1 .. Len(slots.names) :
              LET name == slots.names[i] IN
              IF name \in DOMAIN slots.inputs
              THEN /\ slots.passed[i].name = name
                   /\ slots.passed[i].value = slots.inputs[name]
              ELSE /\ slots.passed[i].name = ""
                   /\ slots.passed[i].value = 0
        /\ \A i \in 1 .. Len(slots.passed) :
              slots.passed[i].name # "" => slots.passed[i].cached

\* C15's case: of two declared inputs the caller gave the second only,
\* together with a key the session does not know.
RunPassesSlotsWitness ==
    /\ slots.pc = "native"
    /\ slots.names = <<"a", "b">>
    /\ DOMAIN slots.inputs = {"b", "c"}
    /\ slots.inputs["b"] = 1
    /\ slots.passed[1].name = "" /\ slots.passed[2].value = 1

\* C16: for every wrapper kind, once Close has been called (once or more)
\* each native handle the wrapper had has been released exactly once and is
\* zero, and before the first Close not at all; a Model closes its runtime
\* once; a later Close of a closed SessionPool changes nothing, and the first
\* one leaves every session and the owned container released.
ReleaseExactlyOnce ==
    /\ [](\A k \in SimpleWrappers :
            /\ wrap.h[k].releases = (IF wrap.closes[k] > 0 THEN 1 ELSE 0)
            /\ wrap.h[k].ptr = (wrap.closes[k] = 0))
    /\ [](IF wrap.closes["Value"] > 0
          THEN /\ wrap.h["Value.ptr"].releases = 1
               /\ wrap.h["Value.infoPtr"].releases <= 1
               /\ ~wrap.h["Value.ptr"].ptr /\ ~wrap.h["Value.infoPtr"].ptr
          ELSE /\ wrap.h["Value.ptr"].releases = 0
               /\ wrap.h["Value.infoPtr"].releases = 0)
    /\ [](LET once == IF wrap.closes["Model"] > 0 THEN 1 ELSE 0 IN
            /\ wrap.h["Model.session"].releases = once
            /\ wrap.h["Model.env"].releases = once
            /\ wrap.model.runtimeCloses = once)
    /\ [](closeReturned
            => /\ \A s \in SessionIds : ~ptr[s]
               /\ (ownsPrepackedWeights => pwReleased))
    /\ [][(closed /\ closePc = "done") => UNCHANGED <<poolVars, closeVars>>]_vars
    /\ [][\A x \in Handles : wrap.h[x].releases > 0
              => wrap'.h[x] = wrap.h[x]]_vars

\* C16's case: every wrapper has been closed twice and the pool's Close has
\* returned.
ReleaseExactlyOnceWitness ==
    /\ \A k \in WrapperKinds : wrap.closes[k] = 2
    /\ wrap.h["Value.infoPtr"].releases = 1
    /\ closeReturned /\ pwReleased

\* C17: the map GetOutputValues returns has one entry per bound output, and
\* the value under a name is the one bound to the output of that name.
OutputValuesKeyedByName ==
    bind.got =>
        /\ DOMAIN bind.result = {bind.bound[i].name : i \in DOMAIN bind.bound}
        /\ \A k \in DOMAIN bind.result : bind.result[k].name = k

\* The preferred providers that are available and load, by position.
Usable == {j \in DOMAIN prov.providers :
              /\ prov.providers[j] \in prov.available
              /\ prov.providers[j] \in prov.loads}

FirstUsable == CHOOSE j \in Usable : \A k \in Usable : j <= k

\* What the call returns once it got to the providers.
FallbackPicks ==
    IF Usable # {}
    THEN prov.session /\ ~prov.err /\ prov.name = prov.providers[FirstUsable]
    ELSE IF prov.cpuLoads
    THEN prov.session /\ ~prov.err /\ prov.name = CPUExecutionProvider
    ELSE prov.err /\ ~prov.session

\* C18 as stated: the call returns the first preferred provider that is
\* available and loads, else the CPU provider; the name is the provider used;
\* an error is returned only when the CPU fallback itself fails.
FallbackErrorOnlyFromCPU ==
    prov.pc = "done" =>
        /\ FallbackPicks
        /\ prov.session => prov.name = prov.used
        /\ prov.err => Usable = {} /\ ~prov.cpuLoads

\* C18: once the model is read and the available providers are listed, the
\* call returns the first preferred provider that is available and loads,
\* else the CPU provider; the name is the provider used; an error is returned
\* only when the model cannot be read, the providers cannot be listed, or the
\* CPU fallback itself fails.
FallbackPicksFirstUsable ==
    prov.pc = "done" =>
        /\ (~prov.readErr /\ ~prov.availErr) => FallbackPicks
        /\ prov.session => prov.name = prov.used
        /\ prov.err =>
              \/ prov.readErr
              \/ prov.availErr
              \/ Usable = {} /\ ~prov.cpuLoads

\* C18's case: the first preferred provider is not available, the second is
\* available and fails to load, and the CPU fallback made the session.
FallbackWitness ==
    /\ prov.pc = "done"
    /\ Len(prov.providers) = 2
    /\ prov.providers[1] \notin prov.available
    /\ prov.providers[2] \in prov.available \ prov.loads
    /\ prov.session /\ prov.name = CPUExecutionProvider

IsNaN(bits) == bits.exp = 255 /\ bits.frac # 0

IsInf(bits, sign) == bits = F32(sign, 255, 0)

\* 1.0, 0.5, 65504.0, 0, -0, -1.0, 2.0, 2^-14, -65504.0
RoundTripValues ==
    {F32(0, 127, 0), F32(0, 126, 0), F32(0, 142, 8380416), F32(0, 0, 0),
     F32(1, 0, 0), F32(1, 127, 0), F32(0, 128, 0), F32(0, 113, 0),
     F32(1, 142, 8380416)}

\* C19: NewFloat16(x).Float32() is x for each of the round-trip values, is
\* +Inf for 100000.0 and -Inf for -100000.0, is 0 for 1e-20, and is a NaN for
\* every NaN x.
Float16RoundTrip ==
    half.pc = "back" =>
        /\ half.f \in RoundTripValues => half.back = half.f
        /\ half.f = F32(0, 143, 4411392) => IsInf(half.back, 0)
        /\ half.f = F32(1, 143, 4411392) => IsInf(half.back, 1)
        /\ half.f = F32(0, 60, 3990792) => half.back = F32(0, 0, 0)
        /\ IsNaN(half.f) => IsNaN(half.back)

\* C19's case: a NaN whose payload lies in the 13 bits that a Float16 has no
\* room for has gone to Float16 and back.
Float16RoundTripWitness ==
    /\ half.pc = "back"
    /\ IsNaN(half.f)
    /\ half.f.frac < 8192

\* C20: a reader with type parameter U applied to a tensor made by
\* NewTensorValue[T] returns the type-mismatch error and neither data nor
\* shape when U differs from T, and the tensor's elements and no error when
\* U is T; this for GetTensorData and for GetTensorDataUnsafe.
TensorDataTypeChecked ==
    (tens.pc = "made" /\ tens.fn # "none") =>
        IF tens.U # tens.T
        THEN /\ tens.err = "element type mismatch"
             /\ tens.count = -1
             /\ ~tens.shape
        ELSE /\ tens.err = "none"
             /\ tens.count = tens.len
             /\ tens.shape

\* C20's case: a tensor of uint16 was read as Float16, whose underlying type
\* is uint16, by the copying reader.
TensorDataTypeCheckedWitness ==
    /\ tens.pc = "made"
    /\ tens.T = "uint16"
    /\ tens.U = "Float16"
    /\ tens.fn = "GetTensorData"


\* C21: NewBFloat16(x).Float32() is a NaN for every NaN x, and is the
\* infinity of the same sign for an infinite x.
BFloat16KeepsSpecials ==
    half.pc = "back" =>
        /\ IsNaN(half.f) => IsNaN(half.back)
        /\ \A sign \in {0, 1} : IsInf(half.f, sign) => IsInf(half.back, sign)


\* C22: in Session.run RunOptionsSetTerminate is never invoked on a run
\* options handle after ReleaseRunOptions was called on it, and the watcher
\* has exited when run returns.
WatcherJoinedBeforeRelease ==
    /\ ~ropt.afterRelease
    /\ ropt.runOpts = "released" => ropt.watcher \in {"none", "exited"}
    /\ ropt.pc = "done" => ropt.watcher \in {"none", "exited"}

\* C22's case: the context fired after the native run had returned and the
\* done channel was closed, the watcher took the ctx.Done() case and set
\* terminate, and the handle was released after that.
WatcherJoinedWitness ==
    /\ ropt.pc = "done"
    /\ ropt.runOpts = "released"
    /\ ropt.terminates = 1
    /\ ropt.doneClosed
    /\ ~ropt.firedInNative
    /\ ropt.result = "ok"


\* C23: in IoBinding.Run too, RunOptionsSetTerminate is never invoked on a
\* run options handle after that handle has been released.
NoTerminateAfterRelease == ~ropt.afterRelease


\* C24: when ReleasePrepackedWeightsContainer has been called on the pool's
\* own container, every session of the pool has been released: none is on
\* the channel and none is held by a Run.
ContainerOutlivesSessions ==
    pwReleased => \A s \in SessionIds : ~ptr[s]

\* C25: once p.closed is set, no session is sent to p.sessions any more.
NoSendAfterCloseInitiated ==
    [][closed => Len(sessions') <= Len(sessions)]_vars


\* The places of Run between p.inflight.Add(1) and the deferred
\* p.inflight.Done().
InFlightPcs ==
    {"select", "before", "call", "native", "addRuns", "addLat", "addErr",
     "after", "defer", "send", "sclose", "ret"}

\* C26: a Run that checked out a session gives it up exactly once on every
\* way out, a panic of a hook or of the session run included: the deferred
\* function sends it to the channel if it read the pool as open and destroys
\* it if it read it as closed; and the in-flight count is decremented exactly
\* once per Run.
RunGivesUpSessionOnce ==
    /\ [](\A c \in Callers :
            caller[c].pc \in {"idle", "ret", "panicked"}
                => caller[c].held = NoSession)
    /\ [](\A s \in SessionIds :
            /\ Cardinality(OnChannel(s)) + Cardinality(Holders(s)) <= 1
            /\ (OnChannel(s) = {} /\ Holders(s) = {}) => ~ptr[s])
    /\ [](inflight = Cardinality({c \in Callers : caller[c].pc \in InFlightPcs}))
    /\ [][\A c \in Callers :
            /\ (caller[c].pc = "defer" /\ caller'[c].pc # "defer")
                  => caller'[c].pc = IF closed THEN "sclose" ELSE "send"
            /\ (caller[c].held \in SessionIds /\ caller'[c].held = NoSession)
                  => IF caller[c].pc = "send"
                     THEN /\ sessions' = Append(sessions, caller[c].held)
                          /\ ptr' = ptr
                     ELSE /\ caller[c].pc = "sclose"
                          /\ ~ptr'[caller[c].held]
                          /\ sessions' = sessions]_vars

\* C26's case: a Run whose hook or session run panicked has gone up the stack
\* after its session went back to the channel of the open pool, and another
\* panicking Run's session was destroyed because the pool was closing.
RunGivesUpSessionWitness ==
    /\ \A c \in Callers : caller[c].pc = "panicked"
    /\ inflight = 0
    /\ \E s \in SessionIds : ~ptr[s] /\ closePc = "wait"
    /\ Len(sessions) >= 1


\* C27: Session.run makes a run options object exactly when ctx can fire or
\* an adapter or a run tag was given (and CreateRunOptions succeeds);
\* otherwise the native run is given the null pointer, no watcher is started
\* and nothing is released. An object that was made is released exactly once
\* by the time run returns, whether it succeeds, fails or panics.
RunOptionsOnlyWhenNeeded ==
    /\ ropt.creates <= 1
    /\ ropt.releases <= ropt.creates
    /\ ropt.pc # "start" =>
          (ropt.creates = 1 <=> (NeedsRunOpts(ropt) /\ ~ropt.createFails))
    /\ ~NeedsRunOpts(ropt) =>
          /\ ropt.passed \in {"none", "null"}
          /\ ropt.pc \in {"native", "cleanup", "done"} => ropt.passed = "null"
          /\ ropt.watcher = "none"
          /\ ropt.releases = 0
          /\ ropt.terminates = 0
    /\ ropt.passed = "handle" => ropt.creates = 1
    /\ (ropt.pc = "native" /\ ropt.passed = "handle") => ropt.runOpts = "live"
    /\ ropt.pc = "done" => ropt.releases = ropt.creates

\* C27's case: a run with a context that cannot fire and one nil adapter made
\* run options, started no watcher, and released them after the native run
\* failed.
RunOptionsOnlyWhenNeededWitness ==
    /\ ropt.pc = "done"
    /\ ropt.ctx = "background"
    /\ ropt.loraAdapters = <<"nil">>
    /\ ropt.runTag = "none"
    /\ ropt.result = "error"
    /\ ropt.passed = "handle"
    /\ ropt.releases = 1


\* C28: a session options handle made by NewSession or NewSessionFromReader
\* is released exactly once by the time the call returns, whatever it
\* returns; when a step after the native session was made fails, the native
\* session is released before the error is returned; a failed construction
\* leaves no native handle unreleased.
ConstructionReleasesHandles ==
    /\ build.optsCreates <= 1 /\ build.optsReleases <= build.optsCreates
    /\ build.sessCreates <= 1 /\ build.sessReleases <= build.sessCreates
    /\ build.pc = "done" =>
          /\ build.optsReleases = build.optsCreates
          /\ build.optsPtr # "live"
          /\ build.result = "error" =>
                /\ build.sessReleases = build.sessCreates
                /\ build.sessionPtr # "live"
          /\ build.result = "session" =>
                /\ build.sessionPtr = "live"
                /\ build.sessReleases = 0

\* C28's case: with options given, the session was made and the name of the
\* last output could not be fetched.
ConstructionReleasesWitness ==
    /\ build.pc = "done"
    /\ build.result = "error"
    /\ build.options
    /\ build.sessCreates = 1
    /\ build.sessReleases = 1
    /\ build.optsReleases = 1
    /\ build.outputCount > 0
    /\ build.failAt = MetadataCalls(build)


\* C29: a Close that has set the closed flag eventually returns, and a Run
\* that is waiting for a session when the pool is closed eventually returns.
CloseEventuallyReturns ==
    /\ (closePc = "wait") ~> closeReturned
    /\ \A c \in Callers :
          (closed /\ caller[c].pc = "select")
              ~> (caller[c].pc \in {"idle", "panicked"})


\* C30 (as stated): the watcher sets terminate at most once and only after the
\* context has fired, and a run whose context fired during the native call
\* has had terminate set by the time its watcher has exited.
TerminateFollowsEveryCancel ==
    /\ ropt.terminates <= 1
    /\ ropt.terminates = 1 => ropt.ctx = "fired"
    /\ ropt.firedInNative /\ ropt.watcher = "exited" => ropt.terminates = 1

\* C30 (amended): the watcher sets terminate at most once and only after the
\* context has fired; when the context fires during the native call, terminate
\* is eventually set unless the native call returns first.
TerminateOnCancelUnlessReturned ==
    /\ [](ropt.terminates <= 1)
    /\ [](ropt.terminates = 1 => ropt.ctx = "fired")
    /\ ropt.firedInNative ~> (ropt.terminates = 1 \/ ropt.pc # "native")

TerminateOnCancelWitness ==
    /\ ropt.firedInNative
    /\ ropt.pc = "native"
    /\ ropt.terminates = 1

====
